---- MODULE Spec2Model ----
(***************************************************************************)
(* A model of the conversation orchestration engine of the Azure AI proxy  *)
(* function: the streaming-delta accumulator (data/chunk_data.py), the     *)
(* tool dispatcher (proxy/abstract_proxy.py, function_registry.py), the    *)
(* step loop of the completions proxy (proxy/completions_proxy.py) and     *)
(* the run supervisor of the assistants proxy (proxy/assistant_proxy.py).  *)
(*                                                                         *)
(* Python values are modelled as follows.  A str is a sequence of one-     *)
(* character strings, so that concatenation is \o and is order sensitive.  *)
(* None in a str-typed field is NoneText, a sequence no text is equal to;  *)
(* None in a field holding an identifier, a role or a type is the atom     *)
(* None.  The "ts" field of a history message is left out: no claim reads  *)
(* it.                                                                     *)
(***************************************************************************)
EXTENDS Integers, Sequences, FiniteSets, TLC

\* ------------------------------------------------------------------------
\* Bounds of the model
\* ------------------------------------------------------------------------

\* The number of stream deltas applied to one ChunkData in SpecChunk.
MaxDeltas == 3

\* ------------------------------------------------------------------------
\* Values
\* ------------------------------------------------------------------------

None == "None"
NoneText == <<"None">>

\* The characters texts are made of.
Char == {"a", "b"}

IsText(t) == t # NoneText

\* Python's  x if acc is None else acc + x
AppendText(acc, x) == IF acc = NoneText THEN x ELSE acc \o x

Min(S) == CHOOSE x \in S : \A y \in S : x <= y

\* ------------------------------------------------------------------------
\* data/chunk_data.py : the streaming-delta accumulator
\* ------------------------------------------------------------------------

\* ChunkToolCallData(), with its ChunkToolCallFunction(): the class defaults.
NewChunkToolCallData ==
    [index |-> 0, id |-> None, type |-> None,
     function |-> [name |-> None, arguments |-> NoneText]]

\* ChunkData(): the class defaults.  tool_calls = None is the flag
\* tool_calls_none with an empty list.
NewChunkData ==
    [content |-> NoneText, role |-> None,
     tool_calls |-> <<>>, tool_calls_none |-> TRUE,
     accumulated_delta |-> NoneText, last_stream_publish |-> 0,
     tool_content |-> NoneText]

\* Lines 109-112: the fragment merged into its accumulator.  id, type and
\* name are overwritten by a non-None value, arguments are concatenated.
MergeToolCallArgsOverwritten(tool_call, delta_tool) ==
    [index |-> delta_tool.index,
     id |-> IF delta_tool.id # None THEN delta_tool.id ELSE tool_call.id,
     type |-> IF delta_tool.type # None THEN delta_tool.type ELSE tool_call.type,
     function |->
        [name |-> IF delta_tool.function.name # None
                  THEN delta_tool.function.name ELSE tool_call.function.name,
         arguments |-> IF IsText(delta_tool.function.arguments)
                       THEN delta_tool.function.arguments
                       ELSE tool_call.function.arguments]]

MergeToolCall(tool_call, delta_tool) ==
    [index |-> delta_tool.index,
     id |-> IF delta_tool.id # None THEN delta_tool.id ELSE tool_call.id,
     type |-> IF delta_tool.type # None THEN delta_tool.type ELSE tool_call.type,
     function |->
        [name |-> IF delta_tool.function.name # None
                  THEN delta_tool.function.name ELSE tool_call.function.name,
         arguments |-> IF IsText(delta_tool.function.arguments)
                       THEN AppendText(tool_call.function.arguments,
                                       delta_tool.function.arguments)
                       ELSE tool_call.function.arguments]]

\* One iteration of the loop over delta.tool_calls that looks at the type
\* of the fragment only.
AddToolCallDeltaOwnTypeOnly(cd, delta_tool) ==
    LET found == {i \in 1..Len(cd.tool_calls) :
                    cd.tool_calls[i].index = delta_tool.index}
        calls == IF found = {} THEN Append(cd.tool_calls, NewChunkToolCallData)
                 ELSE cd.tool_calls
        pos   == IF found = {} THEN Len(calls) ELSE Min(found)
    IN  IF delta_tool.type = "function"
        THEN [chunk |-> [cd EXCEPT !.tool_calls =
                            [calls EXCEPT ![pos] = MergeToolCall(calls[pos], delta_tool)]],
              raised |-> None]
        ELSE [chunk |-> [cd EXCEPT !.tool_calls = calls], raised |-> "ValueError"]

\* Lines 96-114, one iteration of the loop over delta.tool_calls: find the
\* first accumulator with the fragment's index, append a new one when there
\* is none, then merge or raise.  The new accumulator is appended before the
\* type is looked at, so it stays in the list when the fragment is refused.
AddToolCallDelta(cd, delta_tool) ==
    LET found == {i \in 1..Len(cd.tool_calls) :
                    cd.tool_calls[i].index = delta_tool.index}
        calls == IF found = {} THEN Append(cd.tool_calls, NewChunkToolCallData)
                 ELSE cd.tool_calls
        pos   == IF found = {} THEN Len(calls) ELSE Min(found)
        tool_call == calls[pos]
    IN  IF tool_call.type = "function" \/ delta_tool.type = "function"
        THEN [chunk |-> [cd EXCEPT !.tool_calls =
                            [calls EXCEPT ![pos] = MergeToolCall(tool_call, delta_tool)]],
              raised |-> None]
        ELSE [chunk |-> [cd EXCEPT !.tool_calls = calls], raised |-> "ValueError"]

\* Lines 95-114: the loop over delta.tool_calls; it stops at the first raise.
RECURSIVE AddToolCallDeltas(_, _)
AddToolCallDeltas(cd, delta_tools) ==
    IF delta_tools = <<>> THEN [chunk |-> cd, raised |-> None]
    ELSE LET r == AddToolCallDelta(cd, Head(delta_tools))
         IN  IF r.raised # None THEN r
             ELSE AddToolCallDeltas(r.chunk, Tail(delta_tools))

\* Lines 86-91 with the content put in front of what was accumulated.
AddChunkContentPrepended(cd, delta) ==
    LET c1 == IF delta.role # None THEN [cd EXCEPT !.role = delta.role] ELSE cd
    IN  IF IsText(delta.content)
        THEN [c1 EXCEPT !.content =
                          IF c1.content = NoneText THEN delta.content
                          ELSE delta.content \o c1.content,
                        !.accumulated_delta =
                          AppendText(c1.accumulated_delta, delta.content)]
        ELSE c1

\* Lines 86-91: role and content of a delta.
AddChunkContent(cd, delta) ==
    LET c1 == IF delta.role # None THEN [cd EXCEPT !.role = delta.role] ELSE cd
    IN  IF IsText(delta.content)
        THEN [c1 EXCEPT !.content = AppendText(c1.content, delta.content),
                        !.accumulated_delta =
                          AppendText(c1.accumulated_delta, delta.content)]
        ELSE c1

\* ChunkData.add_chunk_delta.  delta.tool_calls = None is the flag
\* tool_calls_none of the delta.
AddChunkDelta(cd, delta) ==
    LET c1 == AddChunkContent(cd, delta)
    IN  IF delta.tool_calls_none THEN [chunk |-> c1, raised |-> None]
        ELSE AddToolCallDeltas([c1 EXCEPT !.tool_calls_none = FALSE],
                               delta.tool_calls)

\* A message of a batch of the Data Sources API, as add_data_source_delta
\* reads it: its delta (delta_none: it has none) with role and content, and
\* its end_turn (FALSE when it has none).
DataSourceDelta(role, content, end_turn) ==
    [delta_none |-> FALSE, role |-> role, content |-> content, end_turn |-> end_turn]

NoDelta(end_turn) ==
    [delta_none |-> TRUE, role |-> None, content |-> NoneText, end_turn |-> end_turn]

\* One iteration of add_data_source_delta that takes the content of the
\* role tool for content of the answer.
AddDataSourceMessageToolAsContent(r, msg) ==
    IF msg.delta_none \/ msg.content = <<"None">> THEN r
    ELSE IF msg.role \in {None, "tool"}
    THEN [r EXCEPT !.chunk.content = IF @ = <<"None">> THEN msg.content
                                     ELSE @ \o msg.content,
                   !.chunk.accumulated_delta = IF @ = <<"None">> THEN msg.content
                                               ELSE @ \o msg.content,
                   !.content_accumulated = TRUE,
                   !.end_turn = msg.end_turn]
    ELSE IF msg.role = "assistant"
    THEN [r EXCEPT !.end_turn = msg.end_turn]
    ELSE [r EXCEPT !.raised = "AttributeError"]

\* Lines 60-79, one iteration, on what the iterations before gave, r.  A
\* message without delta, and a delta without role or with the role tool
\* whose content is None, are skipped by `continue`, before line 79 reads
\* end_turn.  Without role the content is appended to content and
\* accumulated_delta; with the role tool to tool_content; with the role
\* assistant nothing is kept; any other role raises (the ValueError is
\* built from msg.role, and msg is a dict: AttributeError).
AddDataSourceMessage(r, msg) ==
    IF msg.delta_none THEN r
    ELSE IF msg.role = None
    THEN IF msg.content = NoneText THEN r
         ELSE [r EXCEPT !.chunk.content = AppendText(@, msg.content),
                        !.chunk.accumulated_delta = AppendText(@, msg.content),
                        !.content_accumulated = TRUE,
                        !.end_turn = msg.end_turn]
    ELSE IF msg.role = "tool"
    THEN IF msg.content = NoneText THEN r
         ELSE [r EXCEPT !.chunk.tool_content = AppendText(@, msg.content),
                        !.end_turn = msg.end_turn]
    ELSE IF msg.role = "assistant"
    THEN [r EXCEPT !.end_turn = msg.end_turn]
    ELSE [r EXCEPT !.raised = "AttributeError"]

RECURSIVE AddDataSourceMessages(_, _)
AddDataSourceMessages(r, msgs) ==
    IF msgs = <<>> \/ r.raised # None THEN r
    ELSE AddDataSourceMessages(AddDataSourceMessage(r, Head(msgs)), Tail(msgs))

\* ChunkData.add_data_source_delta: (end_turn, content_accumulated) and the
\* ChunkData after it.
AddDataSourceDelta(cd, data_source_delta_msgs) ==
    AddDataSourceMessages([chunk |-> cd, raised |-> None, end_turn |-> FALSE,
                           content_accumulated |-> FALSE],
                          data_source_delta_msgs)

\* json.loads on the tool contents the model uses: "{c}" stands for
\* {"citations": [{"content": "c"}]}, "{}" is the empty dict, any other
\* text is not JSON.  citations_key tells whether the dict has the key
\* citations.
JsonLoadsToolContent(text) ==
    IF text = <<"{", "c", "}">>
    THEN [ok |-> TRUE, citations_key |-> TRUE,
          citations |-> <<[content |-> <<"c">>]>>]
    ELSE IF text = <<"{", "}">>
    THEN [ok |-> TRUE, citations_key |-> FALSE, citations |-> <<>>]
    ELSE [ok |-> FALSE, citations_key |-> FALSE, citations |-> <<>>]

\* ------------------------------------------------------------------------
\* function_registry.py, data/chat_context.py, proxy/abstract_proxy.py :
\* the tool dispatcher
\* ------------------------------------------------------------------------

\* A Python dict with str keys is a function; {} is the empty function.
EmptyDict == [k \in {} |-> None]

\* dict.update: the entries of b are put over those of a.
DictUpdate(a, b) ==
    [k \in DOMAIN a \cup DOMAIN b |-> IF k \in DOMAIN b THEN b[k] ELSE a[k]]

\* The names FunctionRegistry.__load_base_functions registers.
RegistryNames ==
    {"search", "lookup_document_by_field", "lookup_document", "get_document",
     "get_item", "get_partition_items", "upsert_item", "delete_item"}

\* ChatContext.get_function_config: False when the context has no config or
\* the config has no functions, the first function of that name when there
\* is one, None otherwise.  config is the list ChatConfig.functions, or None.
GetFunctionConfig(config, function_name) ==
    IF config = None THEN [kind |-> "False"]
    ELSE LET found == {i \in 1..Len(config) : config[i].name = function_name}
         IN  IF found = {} THEN [kind |-> "None"]
             ELSE [kind |-> "config", f |-> config[Min(found)]]

\* The values a tool function returns: a str, a list of str, a bool, an int.
StrValue(text)   == [type |-> "str",  text |-> text, items |-> <<>>, flag |-> FALSE]
ListValue(items) == [type |-> "list", text |-> <<>>, items |-> items, flag |-> FALSE]
BoolValue(flag)  == [type |-> "bool", text |-> <<>>, items |-> <<>>, flag |-> flag]
IntValue(text)   == [type |-> "int",  text |-> text, items |-> <<>>, flag |-> FALSE]
NoValue          == [type |-> "none", text |-> <<>>, items |-> <<>>, flag |-> FALSE]

\* The call of a registered function: what the function does is an input,
\* behaviour, which either returns a value or raises.
CallFunction(function, kwargs, behaviour) ==
    IF behaviour.kind = "raise"
    THEN [called |-> function, kwargs |-> kwargs, raised |-> "Exception",
          result |-> NoValue]
    ELSE [called |-> function, kwargs |-> kwargs, raised |-> None,
          result |-> behaviour.value]

NotCalled(exception) ==
    [called |-> None, kwargs |-> EmptyDict, raised |-> exception, result |-> NoValue]

\* AbstractProxy._invoke_function_tool.  "matched_function is not None" is
\* true of False, whose .args raises AttributeError; kwargs.update(None)
\* raises TypeError (args_none: the ChatFunctionConfig has args = None); the
\* registry raises KeyError for an unregistered name.
InvokeFunctionTool(config, function_name, kwargs, behaviour) ==
    LET matched_function == GetFunctionConfig(config, function_name)
    IN  IF matched_function.kind = "False" THEN NotCalled("AttributeError")
        ELSE IF matched_function.kind = "config"
        THEN IF matched_function.f.args_none THEN NotCalled("TypeError")
             ELSE IF matched_function.f.function \notin RegistryNames
             THEN NotCalled("KeyError")
             ELSE CallFunction(matched_function.f.function,
                               DictUpdate(kwargs, matched_function.f.args), behaviour)
        ELSE IF function_name \in RegistryNames
        THEN CallFunction(function_name, kwargs, behaviour)
        ELSE NotCalled("ValueError")

\* json.loads on the argument texts the model uses: "{}" is the empty dict,
\* "{q}" stands for {"query": "x"}, any other text is not JSON.
JsonLoads(text) ==
    IF text = <<"{", "}">> THEN [ok |-> TRUE, value |-> EmptyDict]
    ELSE IF text = <<"{", "q", "}">>
    THEN [ok |-> TRUE, value |-> [k \in {"query"} |-> "x"]]
    ELSE [ok |-> FALSE, value |-> EmptyDict]

\* The items of a list, each between quote, separated by sep.
RECURSIVE JoinQuoted(_, _, _)
JoinQuoted(items, quote, sep) ==
    IF items = <<>> THEN <<>>
    ELSE IF Len(items) = 1 THEN <<quote>> \o items[1] \o <<quote>>
    ELSE <<quote>> \o items[1] \o <<quote>> \o sep
         \o JoinQuoted(Tail(items), quote, sep)

\* json.dumps(list, indent=4), the line breaks and the indentation left out.
JsonDumps(items) == <<"[">> \o JoinQuoted(items, "\"", <<",">>) \o <<"]">>

\* str(list): Python's repr of the items.
StrOfList(items) == <<"[">> \o JoinQuoted(items, "'", <<",", " ">>) \o <<"]">>

FailedText == <<"F", "a", "i", "l", "e", "d">>

\* completions_proxy.py 405-413, assistant_proxy.py 231-239: "Ensure
\* response is a string".
ResultToString(value) ==
    IF value.type = "str" THEN value.text
    ELSE IF value.type = "list" THEN JsonDumps(value.items)
    ELSE IF value.type = "bool"
    THEN (IF value.flag THEN <<"t", "r", "u", "e">> ELSE <<"f", "a", "l", "s", "e">>)
    ELSE value.text

\* Line 401: args = {} if function_args is None else json.loads(function_args).
LoadArgs(function_args) ==
    IF function_args = NoneText THEN [ok |-> TRUE, value |-> EmptyDict]
    ELSE JsonLoads(function_args)

\* The try of __invoke_function_tool letting the exceptions through.
InvokedExceptionsPropagate(inv) ==
    IF inv.raised # None
    THEN [raised |-> inv.raised, result |-> NoneText, inv |-> inv]
    ELSE [raised |-> None, result |-> ResultToString(inv.result), inv |-> inv]

\* The try of __invoke_function_tool (completions_proxy.py 402-419,
\* assistant_proxy.py 228-244), inv being what the invocation did: the
\* result is made a string, and "Failed" is the result when the invocation
\* raised.
Invoked(inv) ==
    IF inv.raised # None
    THEN [raised |-> None, result |-> FailedText, inv |-> inv]
    ELSE [raised |-> None, result |-> ResultToString(inv.result), inv |-> inv]

\* CompletionsProxy.__invoke_function_tool and the body of
\* AssistantsProxy.__invoke_function_tool: json.loads outside the try, the
\* invocation and the conversion of its result inside it, "Failed" for any
\* exception raised there.  inv records what the invocation did.
InvokeTool(config, function_name, function_args, behaviour) ==
    IF ~LoadArgs(function_args).ok
    THEN [raised |-> "JSONDecodeError", result |-> NoneText,
          inv |-> NotCalled("JSONDecodeError")]
    ELSE Invoked(InvokeFunctionTool(config, function_name,
                                    LoadArgs(function_args).value, behaviour))

\* ------------------------------------------------------------------------
\* proxy/completions_proxy.py : history messages and the processing of a
\* non-streamed response
\* ------------------------------------------------------------------------

\* The dicts of self.history["messages"].  kind tells which keys the dict
\* has: "content" (content, role), "tool_calls" (tool_calls, role) or
\* "tool" (tool_call_id, role, name, content).
ContentMessage(content, role) ==
    [kind |-> "content", role |-> role, content |-> content,
     tool_calls |-> <<>>, tool_call_id |-> None, name |-> None]

ToolCallsMessage(tool_calls, role) ==
    [kind |-> "tool_calls", role |-> role, content |-> NoneText,
     tool_calls |-> tool_calls, tool_call_id |-> None, name |-> None]

ToolMessage(tool_call_id, name, content) ==
    [kind |-> "tool", role |-> "tool", content |-> content,
     tool_calls |-> <<>>, tool_call_id |-> tool_call_id, name |-> name]

\* Lines 298 and 354: the history message of a response of the Data Sources
\* API, with the key citations (None when citations_none).
CitedMessage(content, role, citations_none, citations) ==
    [kind |-> "cited", role |-> role, content |-> content,
     tool_calls |-> <<>>, tool_call_id |-> None, name |-> None,
     citations_none |-> citations_none, citations |-> citations]

\* Lines 243 and 308: the tool_calls entry of the history message.
ToolCallEntry(tool) ==
    [id |-> tool.id, type |-> "function",
     function |-> [name |-> tool.function.name,
                   arguments |-> tool.function.arguments]]

\* Python's  x if message is None else message + "\n" + x
AppendLine(message, x) ==
    IF message = NoneText THEN x ELSE message \o <<"\n">> \o x

\* The state a response is processed in: what __process_choices and the
\* methods it calls read and write.
\*   history     self.history["messages"]
\*   response    the ChatResponse of the turn
\*   raised      the exception that propagates, None when there is none
\*   invocations what each tool invocation did, in call order
\*   chunk       ChatContext.stream_chunk
\*   published   the deltas of the interim results pushed to the stream
ProcessState(h, resp, inv, cd, pub) ==
    [history |-> h, response |-> resp, raised |-> None, invocations |-> inv,
     chunk |-> cd, published |-> pub]

\* Lines 391-398, one iteration with r what __invoke_function_tool gave:
\* its result goes into the history as a tool message, an exception leaves
\* the loop.  The invocation is logged.
ToolCallProcessed(st, tool, behaviour, r) ==
    LET logged == Append(st.invocations,
                         [id |-> tool.id, name |-> tool.function.name,
                          arguments |-> tool.function.arguments,
                          behaviour |-> behaviour,
                          inv |-> r.inv, raised |-> r.raised, result |-> r.result])
    IN  IF r.raised # None
        THEN [st EXCEPT !.raised = r.raised, !.invocations = logged]
        ELSE [st EXCEPT !.history = Append(st.history,
                            ToolMessage(tool.id, tool.function.name, r.result)),
                        !.invocations = logged]

\* __process_tool_calls: each tool is invoked in request order and its
\* result appended as a tool message; an exception that leaves
\* __invoke_function_tool ends the loop.  behaviours[i] is what the function
\* behind tool i does when it is called.
RECURSIVE ProcessToolCalls(_, _, _, _)
ProcessToolCalls(st, config, tool_calls, behaviours) ==
    IF tool_calls = <<>> \/ st.raised # None THEN st
    ELSE ProcessToolCalls(
            ToolCallProcessed(st, Head(tool_calls), Head(behaviours),
                              InvokeTool(config, Head(tool_calls).function.name,
                                         Head(tool_calls).function.arguments,
                                         Head(behaviours))),
            config, Tail(tool_calls), Tail(behaviours))

\* _publish_interim_result emptying the accumulated delta also when it
\* does not publish.
PublishInterimResultDropsDelta(st, force_publish, elapsed) ==
    IF (force_publish \/ elapsed)
       /\ st.chunk.accumulated_delta # <<"None">>
       /\ Len(st.chunk.accumulated_delta) > 0
    THEN [st EXCEPT !.published = Append(st.published, st.chunk.accumulated_delta),
                    !.chunk = [st.chunk EXCEPT !.last_stream_publish = 1,
                                               !.accumulated_delta = <<"None">>]]
    ELSE [st EXCEPT !.chunk = [st.chunk EXCEPT !.accumulated_delta = <<"None">>]]

\* _publish_interim_result leaving the accumulated delta as it is after a
\* publish.
PublishInterimResultKeepsDelta(st, force_publish, elapsed) ==
    IF (force_publish \/ elapsed)
       /\ st.chunk.accumulated_delta # <<"None">>
       /\ Len(st.chunk.accumulated_delta) > 0
    THEN [st EXCEPT !.published = Append(st.published, st.chunk.accumulated_delta),
                    !.chunk = [st.chunk EXCEPT !.last_stream_publish = 1]]
    ELSE st

\* _publish_interim_result: when forced or when more than publish_frequency
\* has passed since the last publish (elapsed), the accumulated delta is
\* pushed if there is one, the time of the publish noted and the
\* accumulated delta reset.  last_stream_publish is 0 until the first
\* publish and 1, standing for a value of time(), after it.
PublishInterimResult(st, force_publish, elapsed) ==
    IF (force_publish \/ elapsed)
       /\ IsText(st.chunk.accumulated_delta) /\ Len(st.chunk.accumulated_delta) > 0
    THEN [st EXCEPT !.published = Append(st.published, st.chunk.accumulated_delta),
                    !.chunk = [st.chunk EXCEPT !.last_stream_publish = 1,
                                               !.accumulated_delta = NoneText]]
    ELSE st

\* time() - last_stream_publish > publish_frequency: true before the first
\* publish of a ChunkData (last_stream_publish is 0 and time() the seconds
\* since 1970), either way after it.
Elapsed(cd, elapsed) == cd.last_stream_publish = 0 \/ elapsed

\* The accumulated tool calls as __process_tool_calls reads them.
AccumulatedToolCalls(cd) ==
    [i \in 1..Len(cd.tool_calls) |->
        [id |-> cd.tool_calls[i].id, type |-> cd.tool_calls[i].type,
         function |-> cd.tool_calls[i].function]]

\* __process_finished_stream_chunk taking what was accumulated as the
\* answer also when the finish_reason is length or content_filter.
ProcessFinishedStreamChunkKeepsCut(st, config, choice) ==
    IF choice.finish_reason \in {"stop", "length", "content_filter"}
    THEN [st |-> [st EXCEPT !.history = Append(st.history,
                                ContentMessage(st.chunk.content, st.chunk.role)),
                            !.response = [st.response EXCEPT !.message =
                                AppendLine(st.response.message, st.chunk.content)]],
          more_steps |-> FALSE]
    ELSE [st |-> st, more_steps |-> TRUE]

\* __process_finished_stream_chunk with the message of a stop appended to
\* the history twice.
ProcessFinishedStreamChunkTwice(st, config, choice) ==
    IF choice.finish_reason = "stop"
    THEN [st |-> [st EXCEPT !.history = st.history
                                \o <<ContentMessage(st.chunk.content, st.chunk.role),
                                     ContentMessage(st.chunk.content, st.chunk.role)>>,
                            !.response = [st.response EXCEPT !.message =
                                AppendLine(st.response.message, st.chunk.content)]],
          more_steps |-> FALSE]
    ELSE [st |-> st, more_steps |-> TRUE]

\* Line 316: self.context.stream_chunk.tool_calls = None, reached when
\* __process_tool_calls raised nothing.
ToolCallsReset(st) ==
    IF st.raised # None THEN st
    ELSE [st EXCEPT !.chunk = [st.chunk EXCEPT !.tool_calls = <<>>,
                                               !.tool_calls_none = TRUE]]

\* __process_finished_stream_chunk.  tool_calls: the accumulated calls go
\* into the history and are invoked, then the accumulator's calls are
\* reset; iterating tool_calls = None raises TypeError.  stop: the rest of
\* the accumulated delta is pushed, the accumulated content appended to the
\* history and to the response's message (str + None raises TypeError);
\* no more steps.  content_filter, function_call, length: nothing.
ProcessFinishedStreamChunk(st, config, choice) ==
    IF choice.finish_reason = "tool_calls"
    THEN IF st.chunk.tool_calls_none
         THEN [st |-> [st EXCEPT !.raised = "TypeError"], more_steps |-> TRUE]
         ELSE [st |-> ToolCallsReset(ProcessToolCalls(
                          [st EXCEPT !.history = Append(st.history,
                              ToolCallsMessage(
                                  [i \in 1..Len(st.chunk.tool_calls) |->
                                      ToolCallEntry(AccumulatedToolCalls(st.chunk)[i])],
                                  st.chunk.role))],
                          config, AccumulatedToolCalls(st.chunk), choice.behaviours)),
               more_steps |-> TRUE]
    ELSE IF choice.finish_reason = "stop"
    THEN LET pushed == IF IsText(st.chunk.accumulated_delta)
                          /\ Len(st.chunk.accumulated_delta) > 0
                       THEN Append(st.published, st.chunk.accumulated_delta)
                       ELSE st.published
             appended == [st EXCEPT !.published = pushed,
                                    !.history = Append(st.history,
                                        ContentMessage(st.chunk.content, st.chunk.role))]
         IN  IF st.response.message # NoneText /\ st.chunk.content = NoneText
             THEN [st |-> [appended EXCEPT !.raised = "TypeError"], more_steps |-> TRUE]
             ELSE [st |-> [appended EXCEPT !.response = [st.response EXCEPT !.message =
                                AppendLine(st.response.message, st.chunk.content)]],
                   more_steps |-> FALSE]
    ELSE [st |-> st, more_steps |-> TRUE]

\* Lines 378-379, r being what add_chunk_delta gave: the interim result is
\* published unless add_chunk_delta raised.
DeltaAdded(st, r, elapsed) ==
    IF r.raised # None
    THEN [st EXCEPT !.chunk = r.chunk, !.raised = r.raised]
    ELSE PublishInterimResult([st EXCEPT !.chunk = r.chunk], FALSE,
                              Elapsed(r.chunk, elapsed))

\* ChatCitation.from_data_source_citation(c).to_api_response() for a
\* citation with the key content: the content becomes text and then the
\* key content again.
FromDataSourceCitation(datasorce_citation) == [text |-> datasorce_citation.content]

ToApiResponse(citation) == [content |-> citation.text]

\* A message of a response of the Data Sources API that is not streamed:
\* its role, content (NoneText: None), end_turn and intent (NoneText: none).
DataSourceMessage(role, content, end_turn, intent) ==
    [role |-> role, content |-> content, end_turn |-> end_turn, intent |-> intent]

StartsWithBrace(text) == IsText(text) /\ Len(text) > 0 /\ text[1] = "{"

\* Lines 262-283, one iteration on what the iterations before left in a:
\* the content of an assistant message becomes msg_content; the content
\* of a tool message that starts with { is parsed (json.loads may raise)
\* and its citations collected; end_turn sets more_steps False; an intent
\* goes to the response.
DataSourceMessageProcessed(a, m) ==
    LET parsed == JsonLoadsToolContent(m.content)
        withContent ==
            IF m.role = "assistant" THEN [a EXCEPT !.msg_content = m.content]
            ELSE IF m.role = "tool" /\ StartsWithBrace(m.content)
            THEN IF ~parsed.ok THEN [a EXCEPT !.raised = "JSONDecodeError"]
                 ELSE IF parsed.citations_key
                 THEN [a EXCEPT !.msg_citations = @ \o parsed.citations]
                 ELSE a
            ELSE a
    IN  IF withContent.raised # None THEN withContent
        ELSE [withContent EXCEPT
                !.more_steps = IF m.end_turn THEN FALSE ELSE @,
                !.intent = IF m.intent = NoneText THEN @ ELSE AppendLine(@, m.intent)]

RECURSIVE DataSourceMessagesProcessed(_, _)
DataSourceMessagesProcessed(a, messages) ==
    IF messages = <<>> \/ a.raised # None THEN a
    ELSE DataSourceMessagesProcessed(DataSourceMessageProcessed(a, Head(messages)),
                                     Tail(messages))

\* The history messages of this turn carry response.citations itself, not
\* a copy: what line 295 appends to the list shows in each of them.
Realiased(h, citations) ==
    [i \in 1..Len(h) |->
        IF h[i].kind = "cited" /\ ~h[i].citations_none
        THEN [h[i] EXCEPT !.citations = citations] ELSE h[i]]

\* __process_data_source_api_response: the messages are read in order;
\* when there was an assistant message its content is appended to the
\* response's message, the citations collected go to the response's
\* citations, and the message goes into the history with the response's
\* citations.  It returns more_steps: False when a message had end_turn.
ProcessDataSourceApiResponse(st, messages) ==
    LET a == DataSourceMessagesProcessed(
                 [more_steps |-> TRUE, msg_content |-> NoneText,
                  msg_citations |-> <<>>, intent |-> st.response.intent,
                  raised |-> None],
                 messages)
        withIntent == [st EXCEPT !.response.intent = a.intent]
        citations == IF Len(a.msg_citations) > 0
                     THEN st.response.citations
                          \o [i \in 1..Len(a.msg_citations) |->
                                 ToApiResponse(FromDataSourceCitation(a.msg_citations[i]))]
                     ELSE st.response.citations
        citations_none == st.response.citations_none /\ Len(a.msg_citations) = 0
    IN  IF a.raised # None
        THEN [st |-> [withIntent EXCEPT !.raised = a.raised], more_steps |-> TRUE]
        ELSE IF a.msg_content = NoneText
        THEN [st |-> withIntent, more_steps |-> a.more_steps]
        ELSE [st |-> [withIntent EXCEPT
                        !.response.message = AppendLine(@, a.msg_content),
                        !.response.citations_none = citations_none,
                        !.response.citations = citations,
                        !.history = Append(Realiased(st.history, citations),
                                           CitedMessage(a.msg_content, "assistant",
                                                        citations_none, citations))],
              more_steps |-> a.more_steps]

\* ChunkData.has_tool_citations and get_tool_citations: tool_content is
\* parsed (json.loads may raise); has: the dict has the key citations;
\* get: a ChatCitation for each.
ToolCitations(cd) ==
    IF cd.tool_content = NoneText
    THEN [raised |-> None, has |-> FALSE, citations |-> <<>>]
    ELSE IF ~JsonLoadsToolContent(cd.tool_content).ok
    THEN [raised |-> "JSONDecodeError", has |-> FALSE, citations |-> <<>>]
    ELSE [raised |-> None,
          has |-> JsonLoadsToolContent(cd.tool_content).citations_key,
          citations |-> [i \in 1..Len(JsonLoadsToolContent(cd.tool_content).citations) |->
                            FromDataSourceCitation(
                                JsonLoadsToolContent(cd.tool_content).citations[i])]]

\* Lines 343-362, the end of the turn, st being the state after the
\* publish of line 340: the citations of the accumulator are added to the
\* response's (iterating response.citations = None at line 358 raises
\* TypeError); what is left of the accumulated delta is pushed; the
\* accumulated content goes into the history and to the response's
\* message (str + None raises TypeError); True is returned.
DataExtensionsTurnEnded(st) ==
    LET tc == ToolCitations(st.chunk)
        citations == IF tc.has THEN st.response.citations \o tc.citations
                     ELSE st.response.citations
        citations_none == st.response.citations_none /\ ~tc.has
        cited == PublishInterimResult(
                    [st EXCEPT !.response.citations = citations,
                               !.response.citations_none = citations_none],
                    TRUE, TRUE)
        appended == [cited EXCEPT !.history = Append(@,
                        CitedMessage(cited.chunk.content, cited.chunk.role, FALSE,
                                     [i \in 1..Len(citations) |->
                                         ToApiResponse(citations[i])]))]
    IN  IF tc.raised # None
        THEN [st |-> [st EXCEPT !.raised = tc.raised], more_steps |-> TRUE]
        ELSE IF citations_none
        THEN [st |-> [cited EXCEPT !.raised = "TypeError"], more_steps |-> TRUE]
        ELSE IF st.response.message # NoneText /\ st.chunk.content = NoneText
        THEN [st |-> [appended EXCEPT !.raised = "TypeError"], more_steps |-> TRUE]
        ELSE [st |-> [appended EXCEPT !.response.message =
                                        AppendLine(@, st.chunk.content)],
              more_steps |-> TRUE]

\* __process_stream_chunk_from_data_extensions_api: the messages of the
\* chunk go into the accumulator; the interim result is published when
\* content was added; at the end of the turn the message is recorded and
\* True returned, else False.
ProcessStreamChunkFromDataExtensionsApi(st, choice) ==
    LET r == AddDataSourceDelta(st.chunk, choice.messages)
        added == [st EXCEPT !.chunk = r.chunk]
        published == IF r.content_accumulated
                     THEN PublishInterimResult(added, FALSE,
                                               Elapsed(r.chunk, choice.elapsed))
                     ELSE added
    IN  IF r.raised # None
        THEN [st |-> [added EXCEPT !.raised = r.raised], more_steps |-> TRUE]
        ELSE IF r.end_turn THEN DataExtensionsTurnEnded(published)
        ELSE [st |-> published, more_steps |-> FALSE]

\* __process_stream_chunk: a chunk with a finish_reason is a finished
\* chunk; a chunk without delta is one of the Data Sources API; any other
\* chunk has its delta added to the accumulator and the interim result
\* published.
ProcessStreamChunk(st, config, choice) ==
    IF choice.finish_reason # None
    THEN ProcessFinishedStreamChunk(st, config, choice)
    ELSE IF choice.delta_none
    THEN ProcessStreamChunkFromDataExtensionsApi(st, choice)
    ELSE [st |-> DeltaAdded(st, AddChunkDelta(st.chunk, choice.delta), choice.elapsed),
          more_steps |-> TRUE]

\* One iteration of the loop of __process_choices (lines 228-252): a
\* StreamChoice goes to __process_stream_chunk, the messages of a choice of
\* the Data Sources API to __process_data_source_api_response, whose
\* result line 234 does not keep, a choice without message is skipped, the tool calls of a message are recorded and invoked, any other
\* message is the answer.  The result carries more_steps as the iteration
\* leaves it.
ProcessChoice(st, more_steps, config, choice) ==
    IF choice.kind = "stream"
    THEN ProcessStreamChunk(st, config, choice)
    ELSE IF choice.kind = "data_source"
    THEN [st |-> ProcessDataSourceApiResponse(st, choice.messages).st,
          more_steps |-> more_steps]
    ELSE IF choice.kind = "no_message"
    THEN [st |-> st, more_steps |-> more_steps]
    ELSE IF choice.kind = "tool_calls"
    THEN [st |-> ProcessToolCalls(
                    [st EXCEPT !.history = Append(st.history,
                        ToolCallsMessage(
                            [i \in 1..Len(choice.tool_calls) |->
                                ToolCallEntry(choice.tool_calls[i])],
                            choice.role))],
                    config, choice.tool_calls, choice.behaviours),
          more_steps |-> more_steps]
    ELSE [st |-> [st EXCEPT !.history = Append(st.history,
                                ContentMessage(choice.content, choice.role)),
                            !.response = [st.response EXCEPT !.message =
                                AppendLine(st.response.message, choice.content)]],
          more_steps |-> FALSE]

\* __process_choices: more_steps starts True and the choices are processed
\* in order; an exception ends the loop.
RECURSIVE ProcessChoicesFrom(_, _, _, _)
ProcessChoicesFrom(st, more_steps, config, choices) ==
    IF choices = <<>> \/ st.raised # None
    THEN [st |-> st, more_steps |-> more_steps]
    ELSE ProcessChoicesFrom(ProcessChoice(st, more_steps, config, Head(choices)).st,
                            ProcessChoice(st, more_steps, config, Head(choices)).more_steps,
                            config, Tail(choices))

ProcessChoices(st, config, choices) == ProcessChoicesFrom(st, TRUE, config, choices)

\* _get_system_prompt: the context's system prompt (the default prompt when
\* the context has none).
SystemPrompt == <<"S">>

SummaryPrefix == <<"H", ":">>

SummaryRequest == ContentMessage(<<"R">>, "user")

\* __summarise_thread putting back the two popped messages the newer first.
SummarisedHistoryNewerFirst(messages, choices) ==
    <<ContentMessage(SystemPrompt, "system")>>
    \o [i \in 1..Len(choices) |->
           ContentMessage(SummaryPrefix \o choices[i].content, choices[i].role)]
    \o <<messages[Len(messages)], messages[Len(messages) - 1]>>

\* __summarise_thread, lines 203-218, for a summary call that returned
\* choices: the history is cleared and rebuilt from the system prompt, one
\* message for each choice of the summary, and the two messages popped
\* before the call, the older one first.  messages is the history when
\* __summarise_thread is entered; it holds at least two messages.
SummarisedHistory(messages, choices) ==
    LET most_recent_message == messages[Len(messages)]
        second_most_recent_message == messages[Len(messages) - 1]
    IN  <<ContentMessage(SystemPrompt, "system")>>
        \o [i \in 1..Len(choices) |->
               ContentMessage(SummaryPrefix \o choices[i].content, choices[i].role)]
        \o <<second_most_recent_message, most_recent_message>>

\* Lines 175-200: the messages sent with the summary call: the history
\* without its last two messages, and the request for a summary.
SummaryCallMessages(messages) ==
    Append(SubSeq(messages, 1, Len(messages) - 2), SummaryRequest)

\* ------------------------------------------------------------------------
\* State
\* ------------------------------------------------------------------------

VARIABLES
    stream_chunk,   \* ChatContext.stream_chunk: the ChunkData of the step
    deltas,         \* the deltas handed to add_chunk_delta so far, in arrival order
    raised,         \* the exception that left the operation, None when none did
    pc,             \* where send_message is: start, loop, stream, done, raised
    message,        \* the prompt send_message was called with
    config,         \* ChatContext.config.functions: the tool configuration, or None
    max_steps,      \* ChatContext.max_steps
    max_history,    \* ChatContext.max_history
    has_stream,     \* ChatContext.has_stream(): should_stream_results
    data_sources,   \* completions_data_sources is not None: the completion
                    \* calls pass the data sources, and no tools
    store,          \* the session store: the messages saved for the thread
    history,        \* CompletionsProxy.history["messages"]
    response,       \* the ChatResponse of the turn
    step_count,     \* send_message's step_count
    more_steps,     \* send_message's more_steps
    calls,          \* the completion calls of the step loop, in order
    results,        \* the response of each completion call of the step loop:
                    \* its choices or, of a stream, the kinds of the chunks
                    \* received so far that are not deltas
    summary_calls,  \* each summary call: its messages and what it gave
    published,      \* the interim results pushed to the stream in this step
    invocations,    \* what each tool invocation did, in order
    saves,          \* the number of writes to the session store
    returned,       \* the value send_message returned
    now,            \* time(), in seconds since await_run_complete_or_fail began
    expire_time,    \* await_run_complete_or_fail's expire_time
    run,            \* the run as the Assistants service has it
    poll,           \* await_run_complete_or_fail: where it is, the run it got
    handlers,       \* the threads started on __handle_run_actions, in order:
                    \* where each is, the run it was given, what its tool
                    \* invocations did, its tool outputs, the exception it logged
    active_tool_runs, \* AssistantsProxy.active_tool_runs: its keys
    submits,        \* the submit_tool_outputs calls made, in order
    clock,          \* time(), in fifths of a second, of the requests to the
                    \* AssistantProcessor
    proc,           \* the request in progress: where process_prompt is, the
                    \* number of assistants, the counts, the final prompt,
                    \* what it returned or raised
    prompt_calls,   \* the calls of __process_prompt_in_thread of the request,
                    \* in the order they were made
    context,        \* ChatContext.thread_id and the items of linked_threads
    sessions,       \* the threads of the Assistants service: the runs and the
                    \* assistant messages of each
    tool_threads,   \* the threads the proxies of the requests started on
                    \* __handle_run_actions, in order
    tool_active     \* active_tool_runs of the proxy of each request

chunkVars == <<stream_chunk, deltas>>

turnVars == <<pc, message, config, max_steps, max_history, has_stream, data_sources, store,
              history, response, step_count, more_steps, calls, results,
              summary_calls, published, invocations, saves, returned>>

runVars == <<now, expire_time, run, poll, handlers, active_tool_runs, submits>>

agentVars == <<clock, proc, prompt_calls, context, sessions, tool_threads,
               tool_active>>

vars == <<stream_chunk, deltas, raised, pc, message, config, max_steps,
          max_history, has_stream, data_sources, store, history, response, step_count,
          more_steps, calls, results, summary_calls, published, invocations,
          saves, returned, now, expire_time, run, poll, handlers,
          active_tool_runs, submits, clock, proc, prompt_calls, context,
          sessions, tool_threads, tool_active>>

\* ChatResponse(): message, citations and intent are None.  citations is
\* a list when citations_none is FALSE.
NewChatResponse ==
    [message |-> NoneText, citations_none |-> TRUE, citations |-> <<>>,
     intent |-> NoneText]

\* No turn is in progress: the values the variables of the turn have in the
\* specifications that are not about send_message.
TurnIdle ==
    /\ pc = "idle"
    /\ message = NoneText
    /\ max_steps = 5
    /\ max_history = 20
    /\ has_stream = FALSE
    /\ data_sources = FALSE
    /\ store = <<>>
    /\ history = <<>>
    /\ response = NewChatResponse
    /\ step_count = 0
    /\ more_steps = TRUE
    /\ calls = <<>>
    /\ results = <<>>
    /\ summary_calls = <<>>
    /\ published = <<>>
    /\ invocations = <<>>
    /\ saves = 0
    /\ returned = NewChatResponse

NoRun ==
    [id |-> None, status |-> None, batch |-> 0, required_action |-> None,
     tool_calls |-> <<>>]

\* No run is awaited: the values the variables of the run have in the
\* specifications that are not about await_run_complete_or_fail.
RunIdle ==
    /\ now = 0
    /\ expire_time = 0
    /\ run = NoRun
    /\ poll = [pc |-> "idle", run |-> NoRun, result |-> NoRun]
    /\ handlers = <<>>
    /\ active_tool_runs = {}
    /\ submits = <<>>

\* The most assistants a request names.
MaxAgents == 3

\* The ids the Assistants service gives to the threads it makes; Thread(0)
\* stands for None, no thread.
Thread(k) == <<"thread", k>>

NoThread == Thread(0)

\* The threads the requests can come to use: the thread of the context and
\* the thread linked to each assistant that can be a worker.
ThreadIds == {Thread(k) : k \in 1..MaxAgents}

NewSession == [runs |-> <<>>, messages |-> <<>>]

\* process_prompt number no, of a processor with n assistants, at pc.
NewProc(no, n, at) ==
    [pc |-> at, no |-> no, n |-> n, start_time |-> 0, collected |-> {},
     results |-> <<>>, success_count |-> 0, failure_count |-> 0,
     final_prompt |-> <<>>, returned |-> <<>>, raised |-> None]

IdleProc == NewProc(0, 0, "idle")

\* No request to the AssistantProcessor is in progress: the values its
\* variables have in the specifications that are not about process_prompt.
AgentsIdle ==
    /\ clock = 0
    /\ proc = IdleProc
    /\ prompt_calls = <<>>
    /\ context = [thread_id |-> NoThread, linked_threads |-> {}]
    /\ sessions = [t \in ThreadIds |-> NewSession]
    /\ tool_threads = <<>>
    /\ tool_active = {}

\* ------------------------------------------------------------------------
\* SpecChunk: one ChunkData fed a stream of deltas
\* ------------------------------------------------------------------------

Delta(role, content) ==
    [role |-> role, content |-> content, tool_calls_none |-> TRUE, tool_calls |-> <<>>]

ToolDelta(delta_tools) ==
    [role |-> None, content |-> NoneText, tool_calls_none |-> FALSE,
     tool_calls |-> delta_tools]

DeltaTool(index, id, type, name, arguments) ==
    [index |-> index, id |-> id, type |-> type,
     function |-> [name |-> name, arguments |-> arguments]]

\* The deltas of a stream that carry role and content: the service's first
\* delta names the role, the next ones carry the text.
ContentDeltas ==
    {Delta("assistant", c) : c \in {NoneText, <<>>}}
    \cup {Delta(None, c) : c \in {NoneText, <<>>, <<"a">>, <<"b">>, <<"a", "a">>}}

ToolIndexes == {0, 1}
ArgumentPieces == {NoneText, <<"a">>, <<"b">>}

\* One fragment of a tool call: the first fragment of a call names id, type
\* and function, a continuation names none of them, and a fragment of a tool
\* type the proxy does not know names another type.
DeltaTools ==
    {DeltaTool(i, "call", "function", "search", a) : i \in ToolIndexes, a \in ArgumentPieces}
    \cup {DeltaTool(i, None, None, None, a) : i \in ToolIndexes, a \in ArgumentPieces}
    \cup {DeltaTool(i, "call", "other", "search", a) : i \in ToolIndexes, a \in ArgumentPieces}

\* The deltas that carry tool-call fragments: one fragment, or the first
\* fragments of two calls at once, in either order of their indexes.
ToolDeltas ==
    {ToolDelta(<<f>>) : f \in DeltaTools}
    \cup {ToolDelta(<<DeltaTool(i, "call", "function", "search", NoneText),
                      DeltaTool(1 - i, "call", "function", "search", NoneText)>>) :
            i \in ToolIndexes}

InitChunk ==
    /\ stream_chunk = NewChunkData
    /\ deltas = <<>>
    /\ raised = None
    /\ config = None
    /\ TurnIdle
    /\ RunIdle
    /\ AgentsIdle

ApplyDelta(delta) ==
    /\ raised = None
    /\ Len(deltas) < MaxDeltas
    /\ LET r == AddChunkDelta(stream_chunk, delta)
       IN  /\ stream_chunk' = r.chunk
           /\ raised' = r.raised
    /\ deltas' = Append(deltas, delta)
    /\ UNCHANGED <<turnVars, runVars, agentVars>>

ApplyContentDelta == \E delta \in ContentDeltas : ApplyDelta(delta)

ApplyToolDelta == \E delta \in ToolDeltas : ApplyDelta(delta)

NextChunk == ApplyContentDelta \/ ApplyToolDelta

SpecChunk == InitChunk /\ [][NextChunk]_vars

\* ------------------------------------------------------------------------
\* Claims about the accumulator (SpecChunk)
\* ------------------------------------------------------------------------

\* The concatenation, in arrival order, of the non-None content of the deltas
\* ds; NoneText when no delta carried content.
RECURSIVE ConcatContent(_)
ConcatContent(ds) ==
    IF ds = <<>> THEN NoneText
    ELSE LET front == ConcatContent(SubSeq(ds, 1, Len(ds) - 1))
             last  == ds[Len(ds)].content
         IN  IF IsText(last) THEN AppendText(front, last) ELSE front

\* The ChunkData after the deltas ds, applied in order to a new ChunkData.
RECURSIVE ChunkAfter(_)
ChunkAfter(ds) ==
    IF ds = <<>> THEN NewChunkData
    ELSE AddChunkDelta(ChunkAfter(SubSeq(ds, 1, Len(ds) - 1)), ds[Len(ds)]).chunk

Swapped(ds, i, j) == [ds EXCEPT ![i] = ds[j], ![j] = ds[i]]

\* The pairs of positions of deltas that carry two different content fragments.
DifferentContentPairs ==
    {p \in (1..Len(deltas)) \X (1..Len(deltas)) :
        /\ p[1] < p[2]
        /\ IsText(deltas[p[1]].content) /\ IsText(deltas[p[2]].content)
        /\ deltas[p[1]].content # deltas[p[2]].content}

\* C4, as stated: the accumulated content is the concatenation of the non-None
\* content fragments in arrival order, and applying any two different content
\* fragments in swapped order gives a different content.
C4_SwapAlwaysDiffers ==
    /\ IsText(ConcatContent(deltas)) => stream_chunk.content = ConcatContent(deltas)
    /\ \A p \in DifferentContentPairs :
          ChunkAfter(Swapped(deltas, p[1], p[2])).content # stream_chunk.content

\* C4, amended: the accumulated content is None while no content fragment has
\* arrived and otherwise the concatenation of the non-None content fragments
\* in arrival order; applying two different content fragments of the same
\* length in swapped order gives a different content.
C4_ContentIsConcatenation ==
    /\ stream_chunk.content = ConcatContent(deltas)
    /\ \A p \in DifferentContentPairs :
          Len(deltas[p[1]].content) = Len(deltas[p[2]].content)
             => ChunkAfter(Swapped(deltas, p[1], p[2])).content # stream_chunk.content

\* Two different fragments of the same length have arrived, with a delta
\* without content between them.
C4_Witness ==
    /\ Len(deltas) = 3
    /\ deltas[1].content = <<"b">>
    /\ deltas[2].content = NoneText
    /\ deltas[3].content = <<"a">>
    /\ stream_chunk.content = <<"b", "a">>

\* The tool-call fragments of the deltas ds, in arrival order.
RECURSIVE Fragments(_)
Fragments(ds) ==
    IF ds = <<>> THEN <<>>
    ELSE IF ds[1].tool_calls_none THEN Fragments(Tail(ds))
         ELSE ds[1].tool_calls \o Fragments(Tail(ds))

\* The concatenation, in arrival order, of the non-None argument pieces of
\* the fragments fs that carry index idx; NoneText when there is none.
RECURSIVE ConcatArguments(_, _)
ConcatArguments(fs, idx) ==
    IF fs = <<>> THEN NoneText
    ELSE LET front == ConcatArguments(SubSeq(fs, 1, Len(fs) - 1), idx)
             last  == fs[Len(fs)]
         IN  IF last.index = idx /\ IsText(last.function.arguments)
             THEN AppendText(front, last.function.arguments)
             ELSE front

FragmentIndexes(fs) == {fs[k].index : k \in 1..Len(fs)}

\* C5: while no fragment has been refused, there is exactly one accumulator
\* for each index a fragment has carried and none for another index, and
\* the argument text of each accumulator is the concatenation, in arrival
\* order, of the argument pieces of the fragments with its index (None while
\* no piece has arrived).
C5_OneAccumulatorPerIndex ==
    raised = None =>
        LET fs == Fragments(deltas)
            tcs == stream_chunk.tool_calls
        IN  /\ \A idx \in FragmentIndexes(fs) :
                  Cardinality({k \in 1..Len(tcs) : tcs[k].index = idx}) = 1
            /\ \A k \in 1..Len(tcs) :
                  /\ tcs[k].index \in FragmentIndexes(fs)
                  /\ tcs[k].function.arguments = ConcatArguments(fs, tcs[k].index)

\* The call with index 1 arrived first, the call with index 0 second, and the
\* arguments of call 1 came in two pieces around the first fragment of call 0.
C5_Witness ==
    /\ raised = None
    /\ Len(Fragments(deltas)) = 3
    /\ Fragments(deltas)[1].index = 1
    /\ Fragments(deltas)[2].index = 0
    /\ Fragments(deltas)[3].index = 1
    /\ Fragments(deltas)[3].type = None
    /\ Len(stream_chunk.tool_calls) = 2
    /\ stream_chunk.tool_calls[1].index = 1
    /\ stream_chunk.tool_calls[1].function.arguments = <<"a", "b">>

\* ------------------------------------------------------------------------
\* SpecTurn: CompletionsProxy.send_message, one turn
\* ------------------------------------------------------------------------

\* The largest max_steps a turn is configured with.
MaxStepsBound == 3

\* The most tool calls one response requests.
MaxToolCalls == 2

\* The largest max_steps of a turn that streams its results.
MaxStreamSteps == 2

\* The tool configurations of a conversation: none, and one that makes the
\* tool my_tool of the registered function search with a fixed argument.
ToolConfig ==
    <<[name |-> "my_tool", function |-> "search", args_none |-> FALSE,
       args |-> [k \in {"query"} |-> "fixed"]]>>

Configs == {None, ToolConfig}

\* The histories the store holds for a thread: none (a new conversation),
\* and what earlier turns saved.
StoredHistories ==
    { <<>>,
      <<ContentMessage(SystemPrompt, "system"), ContentMessage(<<"u">>, "user"),
        ContentMessage(<<"v">>, "assistant")>>,
      <<ContentMessage(<<"O">>, "system"), ContentMessage(<<"u">>, "user"),
        ToolCallsMessage(<<[id |-> "call_0", type |-> "function",
                            function |-> [name |-> "search",
                                          arguments |-> <<"{", "}">>]]>>, "assistant"),
        ToolMessage("call_0", "search", FailedText),
        ContentMessage(<<"v">>, "assistant")>> }

Prompts == {<<"p">>}

\* What a summary call gives: an exception, or a response with choices.
SummaryOutcomes ==
    {[raised |-> "APIError", choices |-> <<>>],
     [raised |-> None, choices |-> <<[content |-> <<"s">>, role |-> "assistant"]>>],
     [raised |-> None, choices |-> <<[content |-> <<"s">>, role |-> "assistant"],
                                     [content |-> <<"t">>, role |-> "assistant"]>>]}

\* What the function behind a tool does when it is called.
Raises == [kind |-> "raise", value |-> NoValue]
Returns(value) == [kind |-> "return", value |-> value]

ThreeItems == ListValue(<<<<"x">>, <<"y">>, <<"z">>>>)

ToolCall(id, name, arguments) ==
    [id |-> id, type |-> "function",
     function |-> [name |-> name, arguments |-> arguments]]

CallIds == <<"call_1", "call_2", "call_3", "call_4">>

MessageChoice(content) ==
    [kind |-> "message", role |-> "assistant", content |-> content,
     tool_calls |-> <<>>, behaviours |-> <<>>]

NoMessageChoice ==
    [kind |-> "no_message", role |-> None, content |-> NoneText,
     tool_calls |-> <<>>, behaviours |-> <<>>]

\* A choice whose message requests the tool calls requests (name and
\* argument text of each); behaviours[i] is what the function behind call i
\* does when it is called.
ToolCallsChoice(requests, behaviours) ==
    [kind |-> "tool_calls", role |-> "assistant", content |-> NoneText,
     tool_calls |-> [i \in 1..Len(requests) |->
                        ToolCall(CallIds[i], requests[i].name, requests[i].arguments)],
     behaviours |-> behaviours]

ToolRequest(name, arguments) == [name |-> name, arguments |-> arguments]

QueryArgs == <<"{", "q", "}">>
BrokenArgs == <<"{">>

\* The choices of a response that is not streamed.  An assistant message;
\* a choice without message; one tool call: of the registered function
\* search (returning a list of three items, or raising), of the configured
\* tool my_tool, of a name nobody knows, or of search with an argument text
\* that is not JSON; and two to MaxToolCalls tool calls: search without
\* arguments first, then calls of search, the last of which may carry an
\* argument text that is not JSON.
Choices ==
    {MessageChoice(<<"a">>), MessageChoice(<<"b">>), NoMessageChoice,
     ToolCallsChoice(<<ToolRequest("search", QueryArgs)>>, <<Returns(ThreeItems)>>),
     ToolCallsChoice(<<ToolRequest("search", QueryArgs)>>, <<Raises>>),
     ToolCallsChoice(<<ToolRequest("my_tool", QueryArgs)>>, <<Returns(StrValue(<<"r">>))>>),
     ToolCallsChoice(<<ToolRequest("unknown", QueryArgs)>>, <<Returns(StrValue(<<"r">>))>>),
     ToolCallsChoice(<<ToolRequest("search", BrokenArgs)>>, <<Returns(StrValue(<<"r">>))>>)}
    \cup {ToolCallsChoice(
            <<ToolRequest("search", NoneText)>>
                \o [i \in 1..(MaxToolCalls - 1) |->
                       ToolRequest("search", IF i = MaxToolCalls - 1 THEN last ELSE QueryArgs)],
            <<Returns(BoolValue(TRUE))>>
                \o [i \in 1..(MaxToolCalls - 1) |-> Returns(ThreeItems)]) :
          last \in {QueryArgs, BrokenArgs}}

InitTurn ==
    /\ stream_chunk = NewChunkData
    /\ deltas = <<>>
    /\ raised = None
    /\ pc = "start"
    /\ message = NoneText
    /\ has_stream \in BOOLEAN
    /\ data_sources = FALSE
    /\ config \in (IF has_stream THEN {ToolConfig} ELSE Configs)
    /\ max_steps \in (IF has_stream THEN 1..MaxStreamSteps ELSE 0..MaxStepsBound)
    /\ max_history \in (IF has_stream THEN {20} ELSE {2, 4, 20})
    /\ store \in (IF has_stream THEN {<<>>} ELSE StoredHistories)
    /\ history = <<>>
    /\ response = NewChatResponse
    /\ step_count = 0
    /\ more_steps = TRUE
    /\ calls = <<>>
    /\ results = <<>>
    /\ summary_calls = <<>>
    /\ published = <<>>
    /\ invocations = <<>>
    /\ saves = 0
    /\ returned = NewChatResponse
    /\ RunIdle
    /\ AgentsIdle

\* _add_user_prompt_to_thread (with _determine_thread_id, _create_thread and
\* _init_history before it): a new conversation starts from the system
\* prompt, a known one from the stored messages; the prompt is appended.
HistoryWithPrompt(stored, prompt) ==
    Append(IF stored = <<>> THEN <<ContentMessage(SystemPrompt, "system")>> ELSE stored,
           ContentMessage(prompt, "user"))

\* send_message, lines 32-50: the prompt is added, the history is summarised
\* when it has reached max_history, and the loop is set up.  A summary call
\* that raises ends send_message with the history as __summarise_thread
\* left it for the call.
SendMessage(prompt, summary) ==
    /\ pc = "start"
    /\ message' = prompt
    /\ LET h == HistoryWithPrompt(store, prompt)
       IN  IF Len(h) >= max_history
           THEN /\ summary_calls' = Append(summary_calls,
                                           [messages |-> SummaryCallMessages(h),
                                            raised |-> summary.raised,
                                            choices |-> summary.choices])
                /\ IF summary.raised # None
                   THEN /\ history' = SummaryCallMessages(h)
                        /\ raised' = summary.raised
                        /\ pc' = "raised"
                   ELSE /\ history' = SummarisedHistory(h, summary.choices)
                        /\ raised' = None
                        /\ pc' = "loop"
           ELSE /\ history' = h
                /\ summary_calls' = summary_calls
                /\ raised' = None
                /\ pc' = "loop"
    /\ response' = NewChatResponse
    /\ step_count' = 0
    /\ more_steps' = TRUE
    /\ UNCHANGED <<chunkVars, config, max_steps, max_history, has_stream, data_sources, store,
                   calls, results, published, invocations, saves, returned>>
    /\ UNCHANGED <<runVars, agentVars>>

BeginTurn == \E prompt \in Prompts, summary \in SummaryOutcomes :
                SendMessage(prompt, summary)

\* tool_choice being "auto" at every step.
ToolChoiceAuto(step, steps) == "auto"

\* tool_choice being "auto" up to the step before the last.
ToolChoiceButLast(step, steps) == IF step < steps THEN "auto" ELSE "none"

\* Line 93: the tool_choice of the call of step step.
ToolChoice(step, steps) == IF step < steps - 1 THEN "auto" ELSE "none"

\* The record of a completion call of the step loop.
CompletionCall(step, messages, stream) ==
    [step |-> step, messages |-> Len(messages),
     tool_choice |-> IF data_sources THEN None ELSE ToolChoice(step, max_steps),
     stream |-> stream]

\* The loop condition letting one more step through.
LoopContinuesOneMore == more_steps /\ step_count <= max_steps

\* The loop condition of line 51.
LoopContinues == more_steps /\ step_count < max_steps

\* Lines 100-102 (and 386 of __handle_stream_result): what
\* __process_choices gave, r, becomes the state of the proxy, its more_steps
\* the loop's; an exception leaves send_message, else it goes on at next.
Processed(r, next) ==
    /\ history' = r.st.history
    /\ response' = r.st.response
    /\ invocations' = r.st.invocations
    /\ stream_chunk' = r.st.chunk
    /\ published' = r.st.published
    /\ more_steps' = r.more_steps
    /\ raised' = r.st.raised
    /\ pc' = IF r.st.raised # None THEN "raised" ELSE next

\* Lines 51-102, one iteration of the loop with a response that is not
\* streamed: the call, then __process_choices.
StepWith(choices) ==
    /\ pc = "loop"
    /\ LoopContinues
    /\ ~has_stream
    /\ step_count' = step_count + 1
    /\ calls' = Append(calls, CompletionCall(step_count + 1, history, FALSE))
    /\ results' = Append(results, choices)
    /\ Processed(ProcessChoices(ProcessState(history, response, invocations,
                                             stream_chunk, published),
                                config, choices), "loop")
    /\ UNCHANGED <<deltas, message, config, max_steps, max_history, has_stream, data_sources,
                   store, summary_calls, saves, returned>>
    /\ UNCHANGED <<runVars, agentVars>>

Step == \E choice \in Choices : StepWith(<<choice>>)

\* The completion call raises and the history is saved all the same.
StepCallRaisesSaved ==
    /\ pc = "loop"
    /\ LoopContinues
    /\ step_count' = step_count + 1
    /\ calls' = Append(calls, CompletionCall(step_count + 1, history, has_stream))
    /\ raised' = "APIError"
    /\ pc' = "raised"
    /\ store' = history
    /\ saves' = saves + 1
    /\ UNCHANGED <<chunkVars, message, config, max_steps, max_history, has_stream,
                   data_sources, history, response, more_steps, results,
                   summary_calls, published, invocations, returned>>
    /\ UNCHANGED <<runVars, agentVars>>

\* Lines 71-96: the completion call raises (a transport failure).
StepCallRaises ==
    /\ pc = "loop"
    /\ LoopContinues
    /\ step_count' = step_count + 1
    /\ calls' = Append(calls, CompletionCall(step_count + 1, history, has_stream))
    /\ raised' = "APIError"
    /\ pc' = "raised"
    /\ UNCHANGED <<chunkVars, message, config, max_steps, max_history, has_stream, data_sources,
                   store, history, response, more_steps, results, summary_calls,
                   published, invocations, saves, returned>>
    /\ UNCHANGED <<runVars, agentVars>>

\* The end of send_message without the call of _save_thread.
FinishNotSaved ==
    /\ pc = "loop"
    /\ ~LoopContinues
    /\ returned' = response
    /\ pc' = "done"
    /\ UNCHANGED <<chunkVars, raised, message, config, max_steps, max_history,
                   has_stream, data_sources, store, history, response, step_count,
                   more_steps, calls, results, summary_calls, published,
                   invocations, saves>>
    /\ UNCHANGED <<runVars, agentVars>>

\* Lines 104-108: the loop is left, the history is written to the store
\* and the response returned.
Finish ==
    /\ pc = "loop"
    /\ ~LoopContinues
    /\ store' = history
    /\ saves' = saves + 1
    /\ returned' = response
    /\ pc' = "done"
    /\ UNCHANGED <<chunkVars, raised, message, config, max_steps, max_history,
                   has_stream, data_sources, history, response, step_count, more_steps, calls,
                   results, summary_calls, published, invocations>>
    /\ UNCHANGED <<runVars, agentVars>>

\* The most deltas with a content or tool-call fragment one stream carries.
MaxStreamDeltas == 2

StreamChoice(finish_reason, delta, elapsed, behaviours) ==
    [kind |-> "stream", finish_reason |-> finish_reason, delta_none |-> FALSE,
     delta |-> delta, messages |-> <<>>, elapsed |-> elapsed,
     behaviours |-> behaviours]

Chunk(choices) == [choices |-> choices]

\* What `results` keeps of a chunk of a stream: "delta" for a chunk whose
\* choice has a delta and no finish_reason, the finish_reason of a chunk
\* whose choice has one, "empty" for a chunk without choices.
ChunkKind(chunk) ==
    IF chunk.choices = <<>> THEN "empty"
    ELSE IF chunk.choices[1].finish_reason = None THEN "delta"
    ELSE chunk.choices[1].finish_reason

FinishReasons == {"stop", "length", "content_filter", "tool_calls"}

\* Of the stream of the current step, the kinds of the chunks received that
\* are not deltas.
CurrentStream == results[Len(results)]

StreamFinished(stream) == \E i \in 1..Len(stream) : stream[i] \in FinishReasons

HasToolFragment(cd) == ~cd.tool_calls_none

HasContentFragment(cd) == IsText(cd.content) /\ Len(cd.content) > 0

\* The number of deltas with a fragment that went into the accumulator cd.
FragmentCount(cd) ==
    IF HasToolFragment(cd)
    THEN (IF cd.tool_calls[1].function.arguments = <<"{">> THEN 1 ELSE 2)
    ELSE IF HasContentFragment(cd) THEN Len(cd.content) ELSE 0

\* The chunks the service may send next, cd being what the deltas sent so
\* far accumulated to and stream the other chunks sent.  A stream is: a
\* delta with the role; up to MaxStreamDeltas deltas with one-character
\* fragments of the content, or the two fragments of one tool call (the
\* first names the call, the second completes its arguments); a chunk with
\* the finish_reason; possibly a last chunk without choices (the usage).
\* elapsed says whether more than publish_frequency has passed since the
\* last publish.
NextChunks(cd, stream) ==
    LET n == FragmentCount(cd)
    IN  IF StreamFinished(stream)
        THEN IF stream[Len(stream)] \in FinishReasons THEN {Chunk(<<>>)} ELSE {}
        ELSE IF cd.role = None
        THEN {Chunk(<<StreamChoice(None, Delta("assistant", c), FALSE, <<>>)>>) :
                 c \in {NoneText, <<>>}}
        ELSE (IF n < MaxStreamDeltas /\ ~HasToolFragment(cd)
              THEN {Chunk(<<StreamChoice(None, Delta(None, c), e, <<>>)>>) :
                       c \in {<<"a">>, <<"b">>}, e \in BOOLEAN}
              ELSE {})
             \cup (IF n = 0
                   THEN {Chunk(<<StreamChoice(None,
                            ToolDelta(<<DeltaTool(0, "call_1", "function", "search",
                                                  <<"{">>)>>),
                            FALSE, <<>>)>>)}
                   ELSE {})
             \cup (IF n = 1 /\ n < MaxStreamDeltas /\ HasToolFragment(cd)
                   THEN {Chunk(<<StreamChoice(None,
                            ToolDelta(<<DeltaTool(0, None, None, None, <<"q", "}">>)>>),
                            FALSE, <<>>)>>)}
                   ELSE {})
             \cup (IF HasToolFragment(cd)
                   THEN {Chunk(<<StreamChoice("tool_calls", Delta(None, NoneText), FALSE,
                                              <<b>>)>>) :
                            b \in {Returns(ThreeItems), Raises}}
                   ELSE {Chunk(<<StreamChoice(r, Delta(None, NoneText), FALSE, <<>>)>>) :
                            r \in {"stop", "length", "content_filter"}})

\* Lines 51-100 with a streamed response, up to the call: the stream is
\* open and __handle_stream_result starts on a new ChunkData, its
\* more_steps True (more_steps stands for it until the stream has ended,
\* when line 100 assigns it to send_message's more_steps, True until then).
StreamOpen ==
    /\ pc = "loop"
    /\ LoopContinues
    /\ has_stream
    /\ step_count' = step_count + 1
    /\ calls' = Append(calls, CompletionCall(step_count + 1, history, TRUE))
    /\ results' = Append(results, <<>>)
    /\ stream_chunk' = NewChunkData
    /\ published' = <<>>
    /\ more_steps' = TRUE
    /\ pc' = "stream"
    /\ UNCHANGED <<deltas, raised, message, config, max_steps, max_history,
                   has_stream, data_sources, store, history, response, summary_calls,
                   invocations, saves, returned>>
    /\ UNCHANGED <<runVars, agentVars>>

\* __handle_stream_result, one iteration: the chunk goes through
\* __process_choices, whose result replaces more_steps.
StreamChunkWith(chunk) ==
    /\ pc = "stream"
    /\ results' = [results EXCEPT ![Len(results)] =
                        IF ChunkKind(chunk) = "delta" THEN @
                        ELSE Append(@, ChunkKind(chunk))]
    /\ Processed(ProcessChoices(ProcessState(history, response, invocations,
                                             stream_chunk, published),
                                config, chunk.choices), "stream")
    /\ UNCHANGED <<deltas, message, config, max_steps, max_history, has_stream, data_sources,
                   store, step_count, calls, summary_calls, saves, returned>>
    /\ UNCHANGED <<runVars, agentVars>>

StreamChunk ==
    /\ pc = "stream"
    /\ \E chunk \in NextChunks(stream_chunk, CurrentStream) : StreamChunkWith(chunk)

\* The stream is exhausted: __handle_stream_result returns its more_steps.
StreamEnd ==
    /\ pc = "stream"
    /\ StreamFinished(CurrentStream)
    /\ pc' = "loop"
    /\ UNCHANGED <<chunkVars, raised, message, config, max_steps, max_history,
                   has_stream, data_sources, store, history, response, step_count, more_steps,
                   calls, results, summary_calls, published, invocations, saves,
                   returned>>
    /\ UNCHANGED <<runVars, agentVars>>

NextTurn ==
    BeginTurn \/ Step \/ StepCallRaises \/ StreamOpen \/ StreamChunk \/ StreamEnd \/ Finish

SpecTurn == InitTurn /\ [][NextTurn]_vars

\* ------------------------------------------------------------------------
\* Claims about send_message (SpecTurn)
\* ------------------------------------------------------------------------

\* The step loop has reached max_steps and the last response was no answer.
CapReached == more_steps /\ step_count >= max_steps

\* C2: the step loop makes at most max_steps completion calls, the summary
\* call of the compaction not being one of them; when the loop has reached
\* max_steps without an answer nothing is raised, and send_message returns
\* the ChatResponse as the steps left it.
C2_AtMostMaxStepsCalls ==
    /\ Len(calls) = step_count
    /\ Len(calls) <= max_steps
    /\ (pc = "loop" /\ CapReached) => raised = None
    /\ (pc = "done" /\ CapReached) => (raised = None /\ returned = response /\ saves = 1)

\* A turn with max_steps 2 that summarised the history, made two calls, got
\* no answer and returned.
C2_Witness ==
    /\ pc = "done"
    /\ max_steps = 2
    /\ Len(summary_calls) = 1
    /\ Len(calls) = 2
    /\ more_steps
    /\ returned = response
    /\ raised = None

\* The history send_message starts from: the stored messages and the prompt.
\* The store is written by Finish only, so that while the turn runs it
\* holds what it held when the turn started.
HistoryBefore == HistoryWithPrompt(store, message)

\* C3: when the history with the prompt has max_history messages or more,
\* a summary call is made, and when that call gave one choice the history
\* the step loop starts on is exactly the system prompt, one summary
\* message, and the two messages that were last, in their order; the last
\* of them is the prompt of the turn.
C3_CompactedHistory ==
    (pc = "loop" /\ step_count = 0 /\ Len(HistoryBefore) >= max_history) =>
        /\ Len(summary_calls) = 1
        /\ Len(summary_calls[1].choices) = 1 =>
              /\ Len(history) = 4
              /\ history[1] = ContentMessage(SystemPrompt, "system")
              /\ history[2] = ContentMessage(
                                 SummaryPrefix \o summary_calls[1].choices[1].content,
                                 summary_calls[1].choices[1].role)
              /\ history[3] = HistoryBefore[Len(HistoryBefore) - 1]
              /\ history[4] = HistoryBefore[Len(HistoryBefore)]
              /\ history[4] = ContentMessage(message, "user")

\* Five stored messages with a system prompt of their own, max_history 4:
\* the summary call gave one choice, and the history is the proxy's system
\* prompt, the summary, the stored answer and the prompt.
C3_Witness ==
    /\ pc = "loop"
    /\ step_count = 0
    /\ Len(store) = 5
    /\ max_history = 4
    /\ Len(summary_calls) = 1
    /\ Len(summary_calls[1].choices) = 1
    /\ Len(summary_calls[1].messages) = 5
    /\ history[1].content = SystemPrompt
    /\ history[3] = ContentMessage(<<"v">>, "assistant")
    /\ history[4] = ContentMessage(<<"p">>, "user")

\* text ends with the text tail.
EndsWith(text, tail) ==
    /\ Len(text) >= Len(tail)
    /\ SubSeq(text, Len(text) - Len(tail) + 1, Len(text)) = tail

\* The response of call k was an ordinary assistant message: not streamed,
\* one choice with a message without tool calls; or streamed, the stream
\* over and its last chunk the one with finish_reason stop.
OrdinaryMessage(k) ==
    IF calls[k].stream
    THEN /\ k < Len(results) \/ pc \in {"loop", "done"}
         /\ results[k] # <<>>
         /\ results[k][Len(results[k])] = "stop"
    ELSE results[k][1].kind = "message"

\* The content of the ordinary assistant message that is the response of
\* the last call.
OrdinaryContent ==
    IF calls[Len(calls)].stream THEN stream_chunk.content
    ELSE results[Len(results)][1].content

\* C6: when the response of a call is an ordinary assistant message, the
\* call is the last of the turn, the history is the history the call was
\* made with and one assistant message with the content of the response,
\* the response's message ends with that content, and the loop is told
\* there are no more steps; so that a turn whose first response is an
\* ordinary assistant message makes one call.
C6_OrdinaryMessageEndsTurn ==
    \A k \in 1..Len(results) :
        OrdinaryMessage(k) =>
            /\ k = Len(calls)
            /\ Len(history) = calls[k].messages + 1
            /\ history[Len(history)] = ContentMessage(OrdinaryContent, "assistant")
            /\ IF OrdinaryContent = NoneText THEN response.message = NoneText
               ELSE EndsWith(response.message, OrdinaryContent)
            /\ ~more_steps
            /\ pc \in {"loop", "done"}

\* A streamed turn that could have made two calls has returned after one:
\* the stream of the first call carried "a" and "b" and ended with the chunk
\* whose finish_reason is stop.
C6_Witness ==
    /\ pc = "done"
    /\ has_stream
    /\ max_steps = 2
    /\ Len(calls) = 1
    /\ results[1] = <<"stop">>
    /\ response.message = <<"a", "b">>
    /\ history[Len(history)] = ContentMessage(<<"a", "b">>, "assistant")

\* The tool calls the response of the last call requests, the response
\* being not streamed and a message with tool calls.
LastToolCalls == results[Len(results)][1].tool_calls

RequestsToolCalls ==
    /\ results # <<>>
    /\ Len(results) = Len(calls)
    /\ ~calls[Len(calls)].stream
    /\ results[Len(results)][1].kind = "tool_calls"

\* What the history is after a response with tool calls, as C7 has it: the
\* history of the call, one tool_calls message, and one tool message for
\* each call, in request order, with the call's id and the string
\* __invoke_function_tool gave, which is the JSON of the list when the
\* function returned a list; and the loop goes on.
ToolCallsRecorded ==
    LET n    == Len(LastToolCalls)
        base == calls[Len(calls)].messages
    IN  /\ pc = "loop"
        /\ more_steps
        /\ Len(history) = base + 1 + n
        /\ history[base + 1].kind = "tool_calls"
        /\ history[base + 1].tool_calls =
              [i \in 1..n |-> ToolCallEntry(LastToolCalls[i])]
        /\ Len(invocations) >= n
        /\ \A i \in 1..n :
              LET e == invocations[Len(invocations) - n + i]
              IN  /\ e.id = LastToolCalls[i].id
                  /\ history[base + 1 + i] =
                        ToolMessage(LastToolCalls[i].id, LastToolCalls[i].function.name,
                                    e.result)
                  /\ (e.inv.called # None /\ e.inv.raised = None
                         /\ e.inv.result.type = "list")
                        => e.result = JsonDumps(e.inv.result.items)

\* C7, as stated: after a response that requests k tool calls the history
\* has gained one tool_calls message and k tool messages, one for each call
\* in request order with the id of the call and the string result of the
\* dispatcher, and the loop goes on.
C7_ToolCallsRecorded ==
    (RequestsToolCalls /\ pc # "done") => ToolCallsRecorded

\* C7 for argument texts that are JSON or None: then the statement holds.
C7_JsonArgumentsRecorded ==
    (RequestsToolCalls /\ pc # "done"
        /\ \A i \in 1..Len(LastToolCalls) :
              LoadArgs(LastToolCalls[i].function.arguments).ok)
      => ToolCallsRecorded

\* The tool name is one of the tools of the per-conversation configuration.
Configured(function_name) ==
    /\ config # None
    /\ \E i \in 1..Len(config) : config[i].name = function_name

\* C8, as stated: an invoked name that is registered and not configured
\* (there being perhaps no configuration at all) has the registry's
\* function of that name called with the caller's arguments, and what the
\* function returns is the result; a configured name has the function of
\* its configuration called.
C8_UnconfiguredNameCallsRegistry ==
    \A k \in 1..Len(invocations) :
        LET e == invocations[k]
        IN  LoadArgs(e.arguments).ok =>
               IF Configured(e.name)
               THEN e.inv.called = GetFunctionConfig(config, e.name).f.function
               ELSE e.name \in RegistryNames =>
                       /\ e.inv.called = e.name
                       /\ e.inv.kwargs = LoadArgs(e.arguments).value
                       /\ e.behaviour.kind = "return" => e.inv.result = e.behaviour.value

\* ------------------------------------------------------------------------
\* SpecRun: AssistantsProxy.await_run_complete_or_fail and the threads it
\* starts on __handle_run_actions, against one run of the Assistants service
\* ------------------------------------------------------------------------

\* timeout_secs of await_run_complete_or_fail.
TimeoutSecs == 1

\* The most times the run asks for tool outputs.
MaxBatches == 1

RunId == "run_1"

TerminalStatuses == {"completed", "failed", "cancelled", "expired"}

\* Line 190 with "cancelling" among the statuses a run is returned in.
IsFinalOrCancelling(status) == status \in TerminalStatuses \cup {"cancelling"}

\* Line 190: run.status in ["completed", "failed", "cancelled", "expired"].
IsFinal(status) == status \in TerminalStatuses

RunToolCall(id, type, name, arguments) ==
    [id |-> id, type |-> type, function |-> [name |-> name, arguments |-> arguments]]

\* The tool calls a run requires the outputs of: one call of the registered
\* function search; one of a name nobody knows; one whose argument text is
\* not JSON; a code_interpreter call and two calls of search.
RunToolCalls ==
    {<<RunToolCall("call_1", "function", "search", QueryArgs)>>,
     <<RunToolCall("call_1", "function", "unknown", QueryArgs)>>,
     <<RunToolCall("call_1", "function", "search", BrokenArgs)>>,
     <<RunToolCall("call_0", "code_interpreter", None, NoneText),
       RunToolCall("call_1", "function", "search", NoneText),
       RunToolCall("call_2", "function", "search", QueryArgs)>>}

InitRun ==
    /\ stream_chunk = NewChunkData
    /\ deltas = <<>>
    /\ raised = None
    /\ config \in Configs
    /\ TurnIdle
    /\ AgentsIdle
    /\ now = 0
    /\ expire_time = TimeoutSecs
    /\ run = [id |-> RunId, status |-> "queued", batch |-> 0,
              required_action |-> None, tool_calls |-> <<>>]
    /\ poll = [pc |-> "loop", run |-> NoRun, result |-> NoRun]
    /\ handlers = <<>>
    /\ active_tool_runs = {}
    /\ submits = <<>>

\* The variables no action of the run touches.
runFixed == <<stream_chunk, deltas, pc, message, config, max_steps, max_history,
              has_stream, data_sources, store, history, response, step_count, more_steps,
              calls, results, summary_calls, published, invocations, saves,
              returned, expire_time, agentVars>>

\* _are_run_tools_active.
AreRunToolsActive(run_id) == run_id \in active_tool_runs

\* Lines 187-188: time() <= expire_time, and get_run.
PollGetRun ==
    /\ poll.pc = "loop"
    /\ now <= expire_time
    /\ poll' = [poll EXCEPT !.pc = "got", !.run = run]
    /\ UNCHANGED <<runFixed, raised, now, run, handlers,
                   active_tool_runs, submits>>

\* Lines 190-194: a run in a final status is returned; for a run that
\* requires action a thread is started on __handle_run_actions with the run
\* as get_run gave it, unless the tools of the run are active; any other
\* status goes on to the sleep.
PollHandle ==
    /\ poll.pc = "got"
    /\ IF IsFinal(poll.run.status)
       THEN /\ poll' = [poll EXCEPT !.pc = "returned", !.result = poll.run]
            /\ handlers' = handlers
       ELSE /\ poll' = [poll EXCEPT !.pc = "sleep"]
            /\ handlers' =
                  IF poll.run.status = "requires_action" /\ ~AreRunToolsActive(poll.run.id)
                  THEN Append(handlers, [pc |-> "check", run |-> poll.run,
                                         invoked |-> <<>>, tool_outputs |-> <<>>,
                                         error |-> None])
                  ELSE handlers
    /\ UNCHANGED <<runFixed, raised, now, run, active_tool_runs, submits>>

\* sleep(1) with a clock that stands still.
PollSleepClockStands ==
    /\ poll.pc = "sleep"
    /\ now' = now
    /\ poll' = [poll EXCEPT !.pc = "loop"]
    /\ UNCHANGED <<runFixed, raised, run, handlers, active_tool_runs,
                   submits>>

\* Line 195: sleep(1).
PollSleep ==
    /\ poll.pc = "sleep"
    /\ now' = now + 1
    /\ poll' = [poll EXCEPT !.pc = "loop"]
    /\ UNCHANGED <<runFixed, raised, run, handlers, active_tool_runs,
                   submits>>

\* Lines 187 and 196: the time is up, TimeoutError.
PollTimeout ==
    /\ poll.pc = "loop"
    /\ now > expire_time
    /\ poll' = [poll EXCEPT !.pc = "raised"]
    /\ raised' = "TimeoutError"
    /\ UNCHANGED <<runFixed, now, run, handlers, active_tool_runs,
                   submits>>

\* Lines 199-200: __handle_run_actions returns when the tools of the run
\* are active.
HandlerCheck(h) ==
    /\ handlers[h].pc = "check"
    /\ handlers' = [handlers EXCEPT ![h].pc =
                       IF AreRunToolsActive(handlers[h].run.id) THEN "returned"
                       ELSE "set"]
    /\ UNCHANGED <<runFixed, raised, now, run, poll, active_tool_runs,
                   submits>>

\* The function tool calls among tool_calls, in their order.
RECURSIVE FunctionCalls(_)
FunctionCalls(tool_calls) ==
    IF tool_calls = <<>> THEN <<>>
    ELSE IF Head(tool_calls).type = "function"
    THEN <<Head(tool_calls)>> \o FunctionCalls(Tail(tool_calls))
    ELSE FunctionCalls(Tail(tool_calls))

\* The entry of the log of invocations for the call tool, r being what
\* __invoke_function_tool gave.
InvocationOf(tool, behaviour, r) ==
    [id |-> tool.id, name |-> tool.function.name,
     arguments |-> tool.function.arguments, behaviour |-> behaviour,
     inv |-> r.inv, raised |-> r.raised, result |-> r.result]

\* Lines 208-219: __invoke_function_tool for each function tool call (the
\* executor runs them side by side; none reads what another writes).
InvokeAll(conf, tool_calls, behaviours) ==
    [i \in 1..Len(tool_calls) |->
        InvocationOf(tool_calls[i], behaviours[i],
                     InvokeTool(conf, tool_calls[i].function.name,
                                tool_calls[i].function.arguments, behaviours[i]))]

\* ToolOutput(output=result, tool_call_id=call_id).
ToolOutput(output, tool_call_id) == [output |-> output, tool_call_id |-> tool_call_id]

\* The sequence items the other way round.
Reverse(items) == [i \in 1..Len(items) |-> items[Len(items) + 1 - i]]

\* Line 219: the results of the futures in the order they completed in,
\* which is the order of the calls or, here, the reverse of it.
CallResults(invoked, reversed) ==
    LET outputs == [i \in 1..Len(invoked) |->
                       ToolOutput(invoked[i].result, invoked[i].id)]
    IN  IF reversed THEN Reverse(outputs) ELSE outputs

\* What the functions behind the calls of a batch do: the first returns a
\* list or raises, the others return a str.
BatchBehaviours(n) ==
    {[i \in 1..n |-> IF i = 1 THEN first ELSE Returns(StrValue(<<"r">>))] :
        first \in {Returns(ThreeItems), Raises}}

\* Lines 203-219: _set_active_tool_run, then the tool calls up to their
\* results, which nothing else reads or writes until line 220: an
\* exception of a future (the argument text of its call is not JSON) leaves
\* the try for the except of line 221.  A required action of a type other
\* than submit_tool_outputs (line 207) goes to the finally at once.
HandlerInvokeWith(h, behaviours, reversed) ==
    /\ handlers[h].pc = "set"
    /\ active_tool_runs' = active_tool_runs \cup {handlers[h].run.id}
    /\ LET invoked == InvokeAll(config, FunctionCalls(handlers[h].run.tool_calls),
                                behaviours)
           failed == {i \in 1..Len(invoked) : invoked[i].raised # None}
       IN  handlers' =
              IF handlers[h].run.required_action # "submit_tool_outputs"
              THEN [handlers EXCEPT ![h].pc = "clear"]
              ELSE IF failed # {}
              THEN [handlers EXCEPT ![h].pc = "clear", ![h].invoked = invoked,
                                    ![h].error = invoked[Min(failed)].raised]
              ELSE [handlers EXCEPT ![h].pc = "submit", ![h].invoked = invoked,
                                    ![h].tool_outputs = CallResults(invoked, reversed)]
    /\ UNCHANGED <<runFixed, raised, now, run, poll, submits>>

HandlerInvoke ==
    \E h \in 1..Len(handlers) :
        /\ handlers[h].pc = "set"
        /\ \E behaviours \in BatchBehaviours(Len(FunctionCalls(handlers[h].run.tool_calls))),
              reversed \in BOOLEAN :
              HandlerInvokeWith(h, behaviours, reversed)

\* Line 220: submit_tool_outputs.  The service takes the outputs of a run
\* that requires them and queues the run; for a run in another status it
\* answers with an error, which the except of line 221 logs.
HandlerSubmit(h) ==
    /\ handlers[h].pc = "submit"
    /\ LET accepted == run.status = "requires_action" /\ run.batch = handlers[h].run.batch
       IN  /\ submits' = Append(submits,
                                [handler |-> h, run_id |-> handlers[h].run.id,
                                 batch |-> handlers[h].run.batch,
                                 tool_outputs |-> handlers[h].tool_outputs,
                                 accepted |-> accepted])
           /\ run' = IF accepted
                     THEN [run EXCEPT !.status = "queued", !.tool_calls = <<>>,
                                      !.required_action = None]
                     ELSE run
           /\ handlers' = [handlers EXCEPT ![h].pc = "clear",
                                           ![h].error = IF accepted THEN None
                                                        ELSE "BadRequestError"]
    /\ UNCHANGED <<runFixed, raised, now, poll, active_tool_runs>>

\* _clear_active_tool_run leaving the guard as it is.
HandlerClearKeeps(h) ==
    /\ handlers[h].pc = "clear"
    /\ active_tool_runs' = active_tool_runs
    /\ handlers' = [handlers EXCEPT ![h].pc = "done"]
    /\ UNCHANGED <<runFixed, raised, now, run, poll, submits>>

\* Lines 223-224: finally, _clear_active_tool_run.
HandlerClear(h) ==
    /\ handlers[h].pc = "clear"
    /\ active_tool_runs' = active_tool_runs \ {handlers[h].run.id}
    /\ handlers' = [handlers EXCEPT ![h].pc = "done"]
    /\ UNCHANGED <<runFixed, raised, now, run, poll, submits>>

HandlerChecks == \E h \in 1..Len(handlers) : HandlerCheck(h)
HandlerSubmits == \E h \in 1..Len(handlers) : HandlerSubmit(h)
HandlerClears == \E h \in 1..Len(handlers) : HandlerClear(h)

\* The Assistants service: a queued run starts.
RunStarts ==
    /\ run.status = "queued"
    /\ run' = [run EXCEPT !.status = "in_progress"]
    /\ UNCHANGED <<runFixed, raised, now, poll, handlers,
                   active_tool_runs, submits>>

\* What a run may require: the outputs of tool calls, or an action of
\* another type, which line 207 leaves alone.
RequiredActions ==
    {[type |-> "submit_tool_outputs", tool_calls |-> tool_calls] :
        tool_calls \in RunToolCalls}
    \cup {[type |-> "other", tool_calls |-> <<>>]}

\* The Assistants service: a run in progress requires an action.
RunRequiresAction ==
    /\ run.status = "in_progress"
    /\ run.batch < MaxBatches
    /\ \E action \in RequiredActions :
          run' = [run EXCEPT !.status = "requires_action", !.batch = run.batch + 1,
                             !.required_action = action.type,
                             !.tool_calls = action.tool_calls]
    /\ UNCHANGED <<runFixed, raised, now, poll, handlers,
                   active_tool_runs, submits>>

\* The Assistants service: a run in progress completes, fails or is being
\* cancelled; a run being cancelled is cancelled; a run that requires
\* action expires.
RunEnds ==
    /\ \/ /\ run.status = "in_progress"
          /\ \E status \in {"completed", "failed", "cancelling"} :
                run' = [run EXCEPT !.status = status]
       \/ /\ run.status = "cancelling"
          /\ run' = [run EXCEPT !.status = "cancelled"]
       \/ /\ run.status = "requires_action"
          /\ run' = [run EXCEPT !.status = "expired"]
    /\ UNCHANGED <<runFixed, raised, now, poll, handlers,
                   active_tool_runs, submits>>

NextRun ==
    \/ PollGetRun \/ PollHandle \/ PollSleep \/ PollTimeout
    \/ HandlerChecks \/ HandlerInvoke \/ HandlerSubmits \/ HandlerClears
    \/ RunStarts \/ RunRequiresAction \/ RunEnds

SpecRun == InitRun /\ [][NextRun]_vars

\* ------------------------------------------------------------------------
\* SpecDispatch: a turn of the CompletionsProxy, or a run awaited by the
\* AssistantsProxy, of a conversation with a tool configuration (without
\* one, _invoke_function_tool reaches no function)
\* ------------------------------------------------------------------------

InitDispatch == (InitTurn \/ InitRun) /\ config # None

NextDispatch == NextTurn \/ NextRun

SpecDispatch == InitDispatch /\ [][NextDispatch]_vars

\* ------------------------------------------------------------------------
\* Claims about the run (SpecRun) and about the dispatch of tools
\* ------------------------------------------------------------------------

\* The threads that are in a tool-handling episode of the run run_id: they
\* have marked the run active and invoked its tools, and are not yet through
\* the finally of line 224.
Episodes(run_id) ==
    {h \in 1..Len(handlers) :
        /\ handlers[h].run.id = run_id
        /\ handlers[h].pc \in {"submit", "clear"}}

\* The submit_tool_outputs calls made for the outputs the run required the
\* batch-th time.
SubmitsOf(run_id, batch) ==
    {k \in 1..Len(submits) : submits[k].run_id = run_id /\ submits[k].batch = batch}

\* C1, as stated: at no time are two tool-handling episodes of one run
\* executing, and the observations of the run requiring one batch of tool
\* outputs never lead to more than one submit_tool_outputs call.
C1_OneEpisodePerRun ==
    /\ Cardinality(Episodes(RunId)) <= 1
    /\ \A batch \in 1..MaxBatches : Cardinality(SubmitsOf(RunId, batch)) <= 1

\* The function behind the invocation e was called and raised.
FunctionRaised(e) == e.inv.called # None /\ e.inv.raised = "Exception"

\* The tool_outputs hold the output for the call tool_call_id.
HasOutput(tool_outputs, output, tool_call_id) ==
    \E i \in 1..Len(tool_outputs) : tool_outputs[i] = ToolOutput(output, tool_call_id)

\* C9: when the function behind a tool call raises, __invoke_function_tool
\* raises nothing and gives "Failed".  In a turn, the history has the tool
\* message of the call with the content "Failed" and no exception of a
\* function ends the turn.  In a run, the thread whose invocations all gave
\* a result goes on to submit_tool_outputs with the output "Failed" for the
\* call among its tool outputs, and logs no exception of a function.
C9_FunctionExceptionGivesFailed ==
    /\ \A k \in 1..Len(invocations) :
          FunctionRaised(invocations[k]) =>
             /\ invocations[k].raised = None
             /\ invocations[k].result = FailedText
             /\ \E j \in 1..Len(history) :
                   history[j] = ToolMessage(invocations[k].id, invocations[k].name,
                                            FailedText)
    /\ raised # "Exception"
    /\ \A h \in 1..Len(handlers) :
          /\ handlers[h].error # "Exception"
          /\ \A i \in 1..Len(handlers[h].invoked) :
                FunctionRaised(handlers[h].invoked[i]) =>
                   /\ handlers[h].invoked[i].raised = None
                   /\ handlers[h].invoked[i].result = FailedText
                   /\ (\A j \in 1..Len(handlers[h].invoked) :
                          handlers[h].invoked[j].raised = None) =>
                         /\ handlers[h].pc \in {"submit", "clear", "done"}
                         /\ HasOutput(handlers[h].tool_outputs, FailedText,
                                      handlers[h].invoked[i].id)
                         /\ handlers[h].pc \in {"clear", "done"} =>
                               \E k \in 1..Len(submits) :
                                  /\ submits[k].handler = h
                                  /\ submits[k].tool_outputs = handlers[h].tool_outputs

\* A thread of a run has submitted "Failed" as the output of the first of
\* two calls of search, whose function raised, and the service took the
\* outputs.
C9_Witness ==
    \E h \in 1..Len(handlers) :
        /\ handlers[h].pc = "done"
        /\ Len(handlers[h].invoked) = 2
        /\ FunctionRaised(handlers[h].invoked[1])
        /\ HasOutput(handlers[h].tool_outputs, FailedText, "call_1")
        /\ \E k \in 1..Len(submits) : submits[k].handler = h /\ submits[k].accepted

\* C10, as stated: the invocation of a name that is neither configured nor
\* registered raises an error that leaves the turn, and no tool message is
\* made of it.
C10_UnknownNamePropagates ==
    \A k \in 1..Len(invocations) :
        (/\ LoadArgs(invocations[k].arguments).ok
         /\ ~Configured(invocations[k].name)
         /\ invocations[k].name \notin RegistryNames)
           => /\ invocations[k].raised # None
              /\ invocations[k].result # FailedText
              /\ pc = "raised"

\* C11, as stated: a tool call whose argument text is not JSON is still
\* dispatched, with the empty argument set, and its argument text ends
\* neither the turn nor the thread's handling of the run's tool calls with
\* an exception.
C11_MalformedArgsDispatched ==
    /\ \A k \in 1..Len(invocations) :
          ~LoadArgs(invocations[k].arguments).ok =>
             /\ invocations[k].raised = None
             /\ invocations[k].inv.raised # "JSONDecodeError"
             /\ invocations[k].inv.kwargs = EmptyDict
    /\ raised # "JSONDecodeError"
    /\ \A h \in 1..Len(handlers) :
          /\ handlers[h].error # "JSONDecodeError"
          /\ \A i \in 1..Len(handlers[h].invoked) :
                ~LoadArgs(handlers[h].invoked[i].arguments).ok =>
                   /\ handlers[h].invoked[i].raised = None
                   /\ handlers[h].invoked[i].inv.raised # "JSONDecodeError"

\* The threads that have dispatched the tool calls the run required the
\* batch-th time: they are past lines 203-219.
Dispatches(run_id, batch) ==
    {h \in 1..Len(handlers) :
        /\ handlers[h].run.id = run_id
        /\ handlers[h].run.batch = batch
        /\ handlers[h].pc \in {"submit", "clear", "done"}}

\* C12, as stated: whatever the polls observe, the tool calls of a batch
\* are dispatched by one thread only, once, and the outputs of the batch
\* are submitted once.
C12_OneEpisodePerBatch ==
    \A batch \in 1..MaxBatches :
        /\ Cardinality(Dispatches(RunId, batch)) <= 1
        /\ Cardinality(SubmitsOf(RunId, batch)) <= 1

\* The episodes of the run that have ended with an exception: the thread
\* is through its finally and logged the exception of a future or of the
\* submit call.
EndedWithException(run_id) ==
    {h \in 1..Len(handlers) :
        /\ handlers[h].run.id = run_id
        /\ handlers[h].pc = "done"
        /\ handlers[h].error # None}

\* C20: once an episode of the run has ended with an exception, no thread
\* dispatches the tool calls of the run (lines 203-219) and no
\* submit_tool_outputs call is made for it.
C20_NoRetryAfterException ==
    [][EndedWithException(RunId) # {} =>
          /\ Len(submits') = Len(submits)
          /\ \A h \in 1..Len(handlers) :
                handlers[h].pc = "set" => handlers'[h].pc = "set"]_vars

\* C13: await_run_complete_or_fail returns the run it observed, and only
\* in one of the statuses completed, failed, cancelled, expired; after the
\* observation of any other status it goes on to the sleep and the next
\* poll; it raises TimeoutError, and nothing else, when the deadline has
\* passed and the last status it observed is none of the four.
C13_ReturnsOnlyTerminal ==
    /\ poll.pc = "returned" =>
          /\ poll.result = poll.run
          /\ poll.result.status \in {"completed", "failed", "cancelled", "expired"}
          /\ raised = None
    /\ poll.pc = "sleep" =>
          poll.run.status \in {"queued", "in_progress", "requires_action", "cancelling"}
    /\ poll.pc = "raised" =>
          /\ raised = "TimeoutError"
          /\ now > expire_time
          /\ poll.run.status \in {"queued", "in_progress", "requires_action", "cancelling"}
          /\ poll.result = NoRun
    /\ poll.pc \in {"loop", "got", "sleep"} => raised = None /\ poll.result = NoRun
    /\ (poll.pc = "loop" /\ now > 0) =>
          poll.run.status \in {"queued", "in_progress", "requires_action", "cancelling"}

\* The poll that follows the sleep observed the run completed, after the
\* outputs of its tool calls were submitted, and returned it.
C13_Witness ==
    /\ poll.pc = "returned"
    /\ poll.result.status = "completed"
    /\ now >= 1
    /\ \E k \in 1..Len(submits) : submits[k].accepted

\* The deadline passed while the run was being cancelled: TimeoutError.
C13_WitnessTimeout ==
    /\ poll.pc = "raised"
    /\ poll.run.status = "cancelling"

\* ------------------------------------------------------------------------
\* SpecAgents: requests to AssistantProcessor.process_prompt, one after the
\* other on one conversation, with one assistant or several
\* (proxy/assistant_processor.py), over AssistantsProxy.send_message,
\* run_assistant and await_run_complete_or_fail and the Assistants service
\* ------------------------------------------------------------------------

\* The most requests made on the conversation.
MaxPrompts == 2

\* timeout_secs of process_prompt, in fifths of a second.
PromptTimeout == 5

\* sleep(0.2) of send_message and sleep(1) of await_run_complete_or_fail, in
\* fifths of a second.
SendSleep == 1
AwaitSleep == 5

\* The 20 seconds the interpreter is given at least, in fifths of a second.
InterpreterFloor == 100

Max(a, b) == IF a >= b THEN a ELSE b

\* The value passed for timeout_secs: a number, or the tuple
\* (number, metadata) of line 97.
Number(value) == [type |-> "number", value |-> value]
Tuple(value) == [type |-> "tuple", value |-> value]

AssistantId(i) == <<"asst", i>>

\* ChatContext.has_thread.
HasThread(ctx) == ctx.thread_id # NoThread

\* ChatContext.get_linked_thread: the thread linked to the assistant, or
\* None.  linked_threads is the set of its items.
GetLinkedThread(ctx, assistant_id) ==
    IF \E l \in ctx.linked_threads : l.assistant = assistant_id
    THEN (CHOOSE l \in ctx.linked_threads : l.assistant = assistant_id).thread_id
    ELSE NoThread

\* ChatContext.add_linked_thread.
AddLinkedThread(ctx, assistant, thread_id) ==
    [ctx EXCEPT !.linked_threads =
        {l \in @ : l.assistant # assistant}
        \cup {[assistant |-> assistant, thread_id |-> thread_id]}]

\* The threads made for the conversation so far: each was put into the
\* context when it was made.
ThreadsMade(ctx) ==
    ({ctx.thread_id} \cup {l.thread_id : l \in ctx.linked_threads}) \ {NoThread}

\* create_thread giving the same thread each time.
CreateThreadAgain(ctx) == Thread(1)

\* AssistantsProxy.create_thread(False): the service makes a thread, one
\* that did not exist.
CreateThread(ctx) ==
    Thread(Min({k \in 1..MaxAgents : Thread(k) \notin ThreadsMade(ctx)}))

\* Lines 33-34 and 109-110: the thread of the context, made if there is none.
WithThread(ctx) ==
    IF HasThread(ctx) THEN ctx ELSE [ctx EXCEPT !.thread_id = CreateThread(ctx)]

\* Lines 91-95 for the first k workers, in their order: the linked thread
\* of each is looked up, and made and linked when there is none.
RECURSIVE WorkersLinked(_, _)
WorkersLinked(ctx, k) ==
    IF k = 0 THEN ctx
    ELSE LET before == WorkersLinked(ctx, k - 1)
         IN  IF GetLinkedThread(before, AssistantId(k)) # NoThread THEN before
             ELSE AddLinkedThread(before, AssistantId(k), CreateThread(before))

\* assistant_thread_id of the worker k at line 97.
LinkedThread(ctx, k) == GetLinkedThread(WorkersLinked(ctx, k), AssistantId(k))

\* The user's prompt.
Question == <<"What?">>

\* A call of __process_prompt_in_thread that has not begun.
NewCall(caller, assistant, thread_id, timeout_secs, prompt) ==
    [caller |-> caller, pc |-> "start", assistant |-> assistant,
     thread_id |-> thread_id, timeout_secs |-> timeout_secs, prompt |-> prompt,
     start_time |-> 0, expiry |-> 0, run_check_start |-> 0, run_list |-> <<>>,
     busy |-> FALSE, message_created |-> FALSE, run_id |-> 0, expire_time |-> 0, status |-> None,
     timed_out |-> FALSE, raised |-> None,
     success |-> FALSE, messages_none |-> TRUE, messages |-> <<>>]

InitAgents ==
    /\ stream_chunk = NewChunkData
    /\ deltas = <<>>
    /\ raised = None
    /\ config = None
    /\ TurnIdle
    /\ RunIdle
    /\ AgentsIdle

\* The variables no action of the requests touches.
agentFixed == <<chunkVars, turnVars, runVars, raised>>

\* process_prompt, lines 26-36 and 40 with 85-98.  One assistant: the
\* thread of the context is made if there is none, and
\* __process_prompt_in_thread called with timeout_secs.  Several: the last
\* is the interpreter; for each other assistant the linked thread is looked
\* up or made, and __process_prompt_in_thread submitted to the executor
\* with the tuple (timeout - (time() - start_time), metadata) where
\* timeout_secs goes; no time has passed since line 82.
PromptStartWith(n) ==
    /\ proc.pc \in {"idle", "returned", "raised"}
    /\ proc.no < MaxPrompts
    /\ IF n = 1
       THEN /\ proc' = NewProc(proc.no + 1, n, "single")
            /\ context' = WithThread(context)
            /\ prompt_calls' = <<NewCall("single", AssistantId(1),
                                         WithThread(context).thread_id,
                                         Number(PromptTimeout), Question)>>
       ELSE /\ proc' = [NewProc(proc.no + 1, n, "workers") EXCEPT !.start_time = clock]
            /\ context' = WorkersLinked(context, n - 1)
            /\ prompt_calls' = [i \in 1..(n - 1) |->
                                   NewCall("worker", AssistantId(i),
                                           LinkedThread(context, i),
                                           Tuple(PromptTimeout),
                                           Question)]
    /\ UNCHANGED <<agentFixed, clock, sessions, tool_threads, tool_active>>

PromptStart == \E n \in 1..MaxAgents : PromptStartWith(n)

\* The statuses send_message waits the end of (assistant_proxy.py line 118).
BusyStatuses == {"queued", "in_progress", "cancelling"}

\* The test of line 118 without cancelling.
IsBusyNotCancelling(status) == status \in {"queued", "in_progress"}

IsBusy(status) == status \in BusyStatuses

\* any([run.status in [...] for run in run_list]) on the runs of the thread
\* as get_runs_on_thread gives them.
AnyRunBusy(thread_id) ==
    \E r \in 1..Len(sessions[thread_id].runs) :
        IsBusy(sessions[thread_id].runs[r].status)

\* get_runs_on_thread: the status of each run of the thread.
RunList(thread_id) ==
    [r \in 1..Len(sessions[thread_id].runs) |-> sessions[thread_id].runs[r].status]

\* Lines 141-145, and 115-116 of send_message: a timeout_secs that is a tuple makes
\* start_time + timeout_secs a TypeError, outside the try; otherwise
\* send_message is called with expiry - time() and gets the runs of the
\* thread.
CallStart(c) ==
    /\ prompt_calls[c].pc = "start"
    /\ prompt_calls' = [prompt_calls EXCEPT ![c] =
          IF prompt_calls[c].timeout_secs.type = "tuple"
          THEN [@ EXCEPT !.pc = "raised", !.raised = "TypeError"]
          ELSE [@ EXCEPT !.pc = "send", !.start_time = clock,
                         !.expiry = clock + prompt_calls[c].timeout_secs.value,
                         !.run_check_start = clock,
                         !.run_list = RunList(prompt_calls[c].thread_id),
                         !.busy = AnyRunBusy(prompt_calls[c].thread_id)]]
    /\ UNCHANGED <<agentFixed, clock, proc, context, sessions, tool_threads,
                   tool_active>>

\* Lines 150-152: except TimeoutError.  The f-string of line 151 reads
\* run_id, which is not bound when send_message raised: UnboundLocalError
\* leaves the function.  Otherwise (False, None) is returned.
TimedOut(call) ==
    IF call.run_id = 0
    THEN [call EXCEPT !.pc = "raised", !.timed_out = TRUE,
                      !.raised = "UnboundLocalError"]
    ELSE [call EXCEPT !.pc = "returned", !.timed_out = TRUE, !.success = FALSE,
                      !.messages_none = TRUE, !.messages = <<>>]

\* send_message, lines 118-126, one test of the while: while a run of the
\* list is busy the list is got again, and then either the sleep follows or
\* the TimeoutError; when none is busy the message is created.
SendLoop(c) ==
    /\ prompt_calls[c].pc = "send"
    /\ IF prompt_calls[c].busy
       THEN IF clock - prompt_calls[c].run_check_start
                  < prompt_calls[c].expiry - prompt_calls[c].start_time
            THEN /\ prompt_calls' = [prompt_calls EXCEPT
                                        ![c].run_list = RunList(prompt_calls[c].thread_id),
                                        ![c].busy = AnyRunBusy(prompt_calls[c].thread_id)]
                 /\ clock' = clock + SendSleep
            ELSE /\ prompt_calls' = [prompt_calls EXCEPT ![c] = TimedOut(@)]
                 /\ clock' = clock
       ELSE /\ prompt_calls' = [prompt_calls EXCEPT ![c].pc = "run",
                                                    ![c].message_created = TRUE]
            /\ clock' = clock
    /\ UNCHANGED <<agentFixed, proc, context, sessions, tool_threads, tool_active>>

NewRun(assistant) == [status |-> "queued", batch |-> 0, assistant |-> assistant]

\* Lines 147 and 149, 185: run_assistant creates the run, and
\* await_run_complete_or_fail is called with expiry - time().
RunAssistant(c) ==
    /\ prompt_calls[c].pc = "run"
    /\ sessions' = [sessions EXCEPT ![prompt_calls[c].thread_id].runs =
                         Append(@, NewRun(prompt_calls[c].assistant))]
    /\ prompt_calls' = [prompt_calls EXCEPT ![c] =
          [@ EXCEPT !.pc = "await",
                    !.run_id = Len(sessions[prompt_calls[c].thread_id].runs) + 1,
                    !.expire_time = clock + (prompt_calls[c].expiry - clock)]]
    /\ UNCHANGED <<agentFixed, clock, proc, context, tool_threads, tool_active>>

\* The key of a run in active_tool_runs of the proxy of request no.
ToolRunKey(no, thread_id, run_id) == <<no, thread_id, run_id>>

\* await_run_complete_or_fail, lines 187-194 and 196: one test of the
\* while, get_run and what follows from the status.
AwaitPoll(c) ==
    /\ prompt_calls[c].pc = "await"
    /\ LET call == prompt_calls[c]
           got  == sessions[call.thread_id].runs[call.run_id]
       IN  IF clock > call.expire_time
           THEN /\ prompt_calls' = [prompt_calls EXCEPT ![c] = TimedOut(@)]
                /\ tool_threads' = tool_threads
           ELSE IF IsFinal(got.status)
           THEN /\ prompt_calls' = [prompt_calls EXCEPT ![c].pc = "after",
                                                        ![c].status = got.status]
                /\ tool_threads' = tool_threads
           ELSE /\ prompt_calls' = [prompt_calls EXCEPT ![c].pc = "await_sleep"]
                /\ tool_threads' =
                      IF /\ got.status = "requires_action"
                         /\ ToolRunKey(proc.no, call.thread_id, call.run_id) \notin tool_active
                      THEN Append(tool_threads,
                                  [pc |-> "check", no |-> proc.no,
                                   thread_id |-> call.thread_id,
                                   run_id |-> call.run_id, batch |-> got.batch])
                      ELSE tool_threads
    /\ UNCHANGED <<agentFixed, clock, proc, context, sessions, tool_active>>

\* Line 195: sleep(1).
AwaitSleeps(c) ==
    /\ prompt_calls[c].pc = "await_sleep"
    /\ clock' = clock + AwaitSleep
    /\ prompt_calls' = [prompt_calls EXCEPT ![c].pc = "await"]
    /\ UNCHANGED <<agentFixed, proc, context, sessions, tool_threads, tool_active>>

\* Lines 156-161: the assistant messages of the thread, the newest first,
\* without those made before start_time and those of another run.
RECURSIVE RunMessages(_, _, _)
RunMessages(messages, start_time, run_id) ==
    IF messages = <<>> THEN <<>>
    ELSE LET msg  == messages[Len(messages)]
             rest == RunMessages(SubSeq(messages, 1, Len(messages) - 1),
                                 start_time, run_id)
         IN  IF msg.created_at > 0 /\ msg.created_at < start_time THEN rest
             ELSE IF msg.run_id = run_id THEN <<msg>> \o rest
             ELSE rest

\* Lines 154-165: the messages of a completed run with True, or
\* (False, None).
CallAfter(c) ==
    /\ prompt_calls[c].pc = "after"
    /\ prompt_calls' = [prompt_calls EXCEPT ![c] =
          IF prompt_calls[c].status = "completed"
          THEN [@ EXCEPT !.pc = "returned", !.success = TRUE, !.messages_none = FALSE,
                         !.messages = RunMessages(
                             sessions[prompt_calls[c].thread_id].messages,
                             prompt_calls[c].start_time, prompt_calls[c].run_id)]
          ELSE [@ EXCEPT !.pc = "returned", !.success = FALSE,
                         !.messages_none = TRUE, !.messages = <<>>]]
    /\ UNCHANGED <<agentFixed, clock, proc, context, sessions, tool_threads,
                   tool_active>>

\* What a worker's future gave.
WorkerResult(call) ==
    [success |-> call.success, messages_none |-> call.messages_none,
     messages |-> call.messages]

\* The text of the messages msgs as lines 128-133 append it.
RECURSIVE MessageTexts(_)
MessageTexts(msgs) ==
    IF msgs = <<>> THEN <<>>
    ELSE <<Head(msgs).text>> \o MessageTexts(Tail(msgs))

\* __build_interpreter_prompt: the question, then for each assistant that
\* gave messages its id and the text of its messages.  The prompt is the
\* sequence of its parts; the fixed sentences are left out.
RECURSIVE BuildInterpreterPrompt(_, _)
BuildInterpreterPrompt(res, trigger_prompt) ==
    IF res = <<>> THEN <<trigger_prompt>>
    ELSE LET front == BuildInterpreterPrompt(SubSeq(res, 1, Len(res) - 1),
                                             trigger_prompt)
             assistant_res == res[Len(res)]
         IN  IF Len(assistant_res) = 0 THEN front
             ELSE front \o <<assistant_res[1].assistant_id>>
                        \o MessageTexts(assistant_res)

\* Line 104: [messages for _, messages in results if messages].
RECURSIVE MessagesOf(_)
MessagesOf(results_) ==
    IF results_ = <<>> THEN <<>>
    ELSE IF Head(results_).messages_none \/ Head(results_).messages = <<>>
    THEN MessagesOf(Tail(results_))
    ELSE <<Head(results_).messages>> \o MessagesOf(Tail(results_))

\* Line 102: sum(success for success, _ in results).
SuccessCount(results_) ==
    Cardinality({i \in 1..Len(results_) : results_[i].success})

\* The calls of the workers: all but the interpreter's.
WorkerCalls == {c \in 1..Len(prompt_calls) : prompt_calls[c].caller = "worker"}

\* Lines 101-111.  future.result() of the next future that is done: an
\* exception of the worker leaves __orchestrate_prompt_with_assistants and
\* process_prompt.  With the results of all the workers the counts are
\* made, the final prompt built, the thread of the context made if there is
\* none, and __process_prompt_in_thread called for the interpreter with at
\* least 20 seconds.
OrchCollect(c) ==
    /\ proc.pc = "workers"
    /\ c \in WorkerCalls \ proc.collected
    /\ prompt_calls[c].pc \in {"returned", "raised"}
    /\ LET got == Append(proc.results, WorkerResult(prompt_calls[c]))
       IN  IF prompt_calls[c].pc = "raised"
           THEN /\ proc' = [proc EXCEPT !.pc = "raised",
                                        !.raised = prompt_calls[c].raised]
                /\ UNCHANGED <<prompt_calls, context>>
           ELSE IF proc.collected \cup {c} # WorkerCalls
           THEN /\ proc' = [proc EXCEPT !.collected = @ \cup {c}, !.results = got]
                /\ UNCHANGED <<prompt_calls, context>>
           ELSE /\ proc' = [proc EXCEPT
                               !.pc = "interpret",
                               !.collected = @ \cup {c},
                               !.results = got,
                               !.success_count = SuccessCount(got),
                               !.failure_count = Len(got) - SuccessCount(got),
                               !.final_prompt =
                                   BuildInterpreterPrompt(MessagesOf(got), Question)]
                /\ context' = WithThread(context)
                /\ prompt_calls' =
                      Append(prompt_calls,
                             NewCall("interpreter", AssistantId(proc.n),
                                     WithThread(context).thread_id,
                                     Number(Max(InterpreterFloor,
                                                PromptTimeout - (clock - proc.start_time))),
                                     BuildInterpreterPrompt(MessagesOf(got), Question)))
    /\ UNCHANGED <<agentFixed, clock, sessions, tool_threads, tool_active>>

\* __messages_to_response on a list of messages: a ChatResponse for each.
MessagesToResponse(messages) ==
    [i \in 1..Len(messages) |->
        [assistant_id |-> messages[i].assistant_id, message |-> messages[i].text]]

\* Lines 36-37 and 111-114: the call of __process_prompt_in_thread made by
\* process_prompt itself is over.  Its exception is process_prompt's.
\* __messages_to_response iterates messages: TypeError when it is None.
\* Otherwise the responses and the counts are returned.
PromptReturn ==
    /\ proc.pc \in {"single", "interpret"}
    /\ LET call == prompt_calls[Len(prompt_calls)]
       IN  /\ call.pc \in {"returned", "raised"}
           /\ proc' =
                 IF call.pc = "raised"
                 THEN [proc EXCEPT !.pc = "raised", !.raised = call.raised]
                 ELSE IF call.messages_none
                 THEN [proc EXCEPT !.pc = "raised", !.raised = "TypeError",
                          !.success_count = IF proc.pc = "single" THEN 0
                                            ELSE @ + (IF call.success THEN 1 ELSE 0),
                          !.failure_count = IF proc.pc = "single" THEN 1
                                            ELSE @ + (IF call.success THEN 0 ELSE 1)]
                 ELSE [proc EXCEPT !.pc = "returned",
                          !.returned = MessagesToResponse(call.messages),
                          !.success_count = IF proc.pc = "single" THEN 1 ELSE @ + 1,
                          !.failure_count = IF proc.pc = "single" THEN 0 ELSE @]
    /\ UNCHANGED <<agentFixed, clock, prompt_calls, context, sessions,
                   tool_threads, tool_active>>

\* __handle_run_actions, lines 199-200.
ToolThreadCheck(h) ==
    /\ tool_threads[h].pc = "check"
    /\ tool_threads' = [tool_threads EXCEPT ![h].pc =
          IF ToolRunKey(tool_threads[h].no, tool_threads[h].thread_id,
                        tool_threads[h].run_id) \in tool_active
          THEN "returned" ELSE "set"]
    /\ UNCHANGED <<agentFixed, clock, proc, prompt_calls, context, sessions,
                   tool_active>>

\* Lines 203-219: the run is marked active and its tools are invoked;
\* failed tells that an exception left a future.
ToolThreadInvoke(h, failed) ==
    /\ tool_threads[h].pc = "set"
    /\ tool_active' = tool_active \cup
          {ToolRunKey(tool_threads[h].no, tool_threads[h].thread_id,
                      tool_threads[h].run_id)}
    /\ tool_threads' = [tool_threads EXCEPT ![h].pc =
                           IF failed THEN "clear" ELSE "submit"]
    /\ UNCHANGED <<agentFixed, clock, proc, prompt_calls, context, sessions>>

\* Line 220: submit_tool_outputs; the service queues a run that requires
\* these outputs and refuses the outputs otherwise.
ToolThreadSubmit(h) ==
    /\ tool_threads[h].pc = "submit"
    /\ LET t == tool_threads[h].thread_id
           r == tool_threads[h].run_id
       IN  sessions' =
              IF /\ sessions[t].runs[r].status = "requires_action"
                 /\ sessions[t].runs[r].batch = tool_threads[h].batch
              THEN [sessions EXCEPT ![t].runs[r].status = "queued"]
              ELSE sessions
    /\ tool_threads' = [tool_threads EXCEPT ![h].pc = "clear"]
    /\ UNCHANGED <<agentFixed, clock, proc, prompt_calls, context, tool_active>>

\* Lines 223-224.
ToolThreadClear(h) ==
    /\ tool_threads[h].pc = "clear"
    /\ tool_active' = tool_active \
          {ToolRunKey(tool_threads[h].no, tool_threads[h].thread_id,
                      tool_threads[h].run_id)}
    /\ tool_threads' = [tool_threads EXCEPT ![h].pc = "done"]
    /\ UNCHANGED <<agentFixed, clock, proc, prompt_calls, context, sessions>>

\* The Assistants service takes the run r of the thread t on: a queued run
\* starts; a run in progress requires tool outputs, completes with an
\* assistant message, fails or is being cancelled; a run being cancelled is
\* cancelled; a run that requires action expires.
ServiceStep(t, r) ==
    /\ LET run_ == sessions[t].runs[r]
       IN  \/ /\ run_.status = "queued"
              /\ sessions' = [sessions EXCEPT ![t].runs[r].status = "in_progress"]
           \/ /\ run_.status = "in_progress"
              /\ run_.batch < MaxBatches
              /\ sessions' = [sessions EXCEPT ![t].runs[r].status = "requires_action",
                                              ![t].runs[r].batch = @ + 1]
           \/ /\ run_.status = "in_progress"
              /\ sessions' = [sessions EXCEPT
                                 ![t].runs[r].status = "completed",
                                 ![t].messages = Append(@,
                                     [run_id |-> r, created_at |-> clock,
                                      assistant_id |-> run_.assistant,
                                      text |-> <<"answer">>])]
           \/ /\ run_.status = "in_progress"
              /\ \E status \in {"failed", "cancelling"} :
                    sessions' = [sessions EXCEPT ![t].runs[r].status = status]
           \/ /\ run_.status = "cancelling"
              /\ sessions' = [sessions EXCEPT ![t].runs[r].status = "cancelled"]
           \/ /\ run_.status = "requires_action"
              /\ sessions' = [sessions EXCEPT ![t].runs[r].status = "expired"]
    /\ UNCHANGED <<agentFixed, clock, proc, prompt_calls, context, tool_threads,
                   tool_active>>

CallStarts == \E c \in 1..Len(prompt_calls) : CallStart(c)
SendLoops == \E c \in 1..Len(prompt_calls) : SendLoop(c)
RunAssistants == \E c \in 1..Len(prompt_calls) : RunAssistant(c)
AwaitPolls == \E c \in 1..Len(prompt_calls) : AwaitPoll(c)
AwaitSleep_s == \E c \in 1..Len(prompt_calls) : AwaitSleeps(c)
CallAfters == \E c \in 1..Len(prompt_calls) : CallAfter(c)
OrchCollects == \E c \in 1..Len(prompt_calls) : OrchCollect(c)
ToolThreadChecks == \E h \in 1..Len(tool_threads) : ToolThreadCheck(h)
ToolThreadInvokes ==
    \E h \in 1..Len(tool_threads), failed \in BOOLEAN : ToolThreadInvoke(h, failed)
ToolThreadSubmits == \E h \in 1..Len(tool_threads) : ToolThreadSubmit(h)
ToolThreadClears == \E h \in 1..Len(tool_threads) : ToolThreadClear(h)
ServiceSteps ==
    \E t \in ThreadIds : \E r \in 1..Len(sessions[t].runs) : ServiceStep(t, r)

NextAgents ==
    \/ PromptStart \/ CallStarts \/ SendLoops \/ RunAssistants
    \/ AwaitPolls \/ AwaitSleep_s \/ CallAfters \/ OrchCollects \/ PromptReturn
    \/ ToolThreadChecks \/ ToolThreadInvokes \/ ToolThreadSubmits
    \/ ToolThreadClears \/ ServiceSteps

SpecAgents == InitAgents /\ [][NextAgents]_vars

\* ------------------------------------------------------------------------
\* Claims about the requests to the AssistantProcessor (SpecAgents)
\* ------------------------------------------------------------------------

\* The runs of the thread thread_id that are queued, in progress or being
\* cancelled.
BusyRuns(thread_id) ==
    {r \in 1..Len(sessions[thread_id].runs) :
        sessions[thread_id].runs[r].status \in {"queued", "in_progress", "cancelling"}}

\* C17, as stated: with the requests made one after the other, no thread
\* ever has two runs that are queued, in progress or being cancelled at the
\* same time.
C17_OneBusyRunPerSession ==
    \A t \in ThreadIds : Cardinality(BusyRuns(t)) <= 1

\* The workers of the request are over.
WorkersOver ==
    /\ WorkerCalls # {}
    /\ \A c \in WorkerCalls : prompt_calls[c].pc \in {"returned", "raised"}

\* C14, as stated: a call of __process_prompt_in_thread that met a
\* TimeoutError, in send_message or in await_run_complete_or_fail, gives
\* (False, None) and raises nothing; and a request with several assistants
\* does not end with an exception: when it is over, every worker has
\* returned and the interpreter has been called.
C14_TimeoutDegradesWorker ==
    /\ \A c \in 1..Len(prompt_calls) :
          prompt_calls[c].timed_out =>
             /\ prompt_calls[c].pc = "returned"
             /\ prompt_calls[c].raised = None
             /\ ~prompt_calls[c].success
             /\ prompt_calls[c].messages_none
    /\ proc.n >= 2 =>
          /\ proc.pc # "raised"
          /\ proc.pc = "returned" =>
                /\ \A c \in WorkerCalls : prompt_calls[c].pc = "returned"
                /\ \E c \in 1..Len(prompt_calls) :
                      prompt_calls[c].caller = "interpreter"

\* The messages of the workers that returned True, in the order the
\* results were collected in.
RECURSIVE SuccessfulOutputs(_)
SuccessfulOutputs(results_) ==
    IF results_ = <<>> THEN <<>>
    ELSE IF Head(results_).success /\ Head(results_).messages # <<>>
    THEN <<Head(results_).messages>> \o SuccessfulOutputs(Tail(results_))
    ELSE SuccessfulOutputs(Tail(results_))

\* C15, as stated: once the workers of a request with several assistants
\* are over and their results collected, the interpreter is given the
\* prompt made of the question and the output of the workers whose run
\* completed, and of no other worker.
C15_SynthesisOfSuccessfulWorkers ==
    (proc.n >= 2 /\ WorkersOver /\ proc.pc # "workers") =>
        \E c \in 1..Len(prompt_calls) :
            /\ prompt_calls[c].caller = "interpreter"
            /\ prompt_calls[c].prompt =
                  BuildInterpreterPrompt(SuccessfulOutputs(proc.results), Question)
            /\ prompt_calls[c].prompt[1] = Question

\* C16, as stated: a request with N >= 2 assistants that is over has
\* returned the messages of the interpreter with counts that add up to N,
\* success_count being the number of calls, the interpreter's included,
\* whose run completed.
C16_CountsAddUp ==
    (proc.n >= 2 /\ proc.pc \in {"returned", "raised"}) =>
        /\ proc.pc = "returned"
        /\ proc.success_count + proc.failure_count = proc.n
        /\ proc.success_count =
              Cardinality({c \in 1..Len(prompt_calls) :
                              prompt_calls[c].status = "completed"})
        /\ proc.returned =
              MessagesToResponse(prompt_calls[Len(prompt_calls)].messages)


\* ------------------------------------------------------------------------
\* Claims about the history of a turn (SpecTurn)
\* ------------------------------------------------------------------------

\* C19: once send_message has set up the history (a new session, or the
\* stored messages, which start with a system message), the message at
\* index 0 of the history has the role system, whatever the turn has done
\* since: the prompt appended, the history compacted, tool calls, tool
\* results and answers appended.
C19_IndexZeroIsSystem ==
    pc # "start" => /\ Len(history) > 0
                    /\ history[1].role = "system"

\* ------------------------------------------------------------------------
\* send_message with data sources (completions_proxy.py, lines 67-81): the
\* Data Sources API answers with batches of messages
\* ------------------------------------------------------------------------

\* The largest max_steps of a turn with data sources.
MaxDataSourceSteps == 2

\* The most chunks one stream of the Data Sources API carries.
MaxDataSourceChunks == 3

\* A choice of a response of the Data Sources API that is not streamed:
\* model_extra has the messages.
DataSourceChoice(messages) ==
    [kind |-> "data_source", role |-> None, content |-> NoneText,
     tool_calls |-> <<>>, behaviours |-> <<>>, messages |-> messages]

\* The tool contents of the Data Sources API: citations, a dict without
\* citations, and a text that starts like JSON and is none.
ToolContents == {<<"{", "c", "}">>, <<"{", "}">>, <<"{">>}

\* The batches of a response that is not streamed: possibly a tool message,
\* then possibly the assistant's message; the first message may carry an
\* intent, the last one may carry end_turn.
DataSourceBatches ==
    {b \in
        {(IF tool = NoneText THEN <<>>
          ELSE <<DataSourceMessage("tool", tool, end_turn /\ ~assistant,
                                   intent)>>)
         \o (IF assistant
             THEN <<DataSourceMessage("assistant", <<"a">>, end_turn,
                                      IF tool = NoneText THEN intent ELSE NoneText)>>
             ELSE <<>>) :
            tool \in ToolContents \cup {NoneText}, assistant \in BOOLEAN,
            end_turn \in BOOLEAN, intent \in {NoneText, <<"i">>}} :
     b # <<>>}

DataSourceChoices == {DataSourceChoice(b) : b \in DataSourceBatches}

\* A chunk of a stream of the Data Sources API: its choice has no delta and
\* no finish_reason, model_extra has the messages.
DataSourceStreamChoice(messages, elapsed) ==
    [kind |-> "stream", finish_reason |-> None, delta_none |-> TRUE,
     delta |-> Delta(None, NoneText), messages |-> messages, elapsed |-> elapsed,
     behaviours |-> <<>>]

\* The batches of the chunks of a stream: the tool's content, the
\* assistant's role, a fragment of the content (the last one with end_turn),
\* a message with an empty delta or without delta that carries end_turn, a
\* message of another role, and two fragments in one batch, end_turn on
\* the first.
DataSourceStreamBatches ==
    {<<DataSourceDelta("tool", t, FALSE)>> : t \in ToolContents}
    \cup {<<DataSourceDelta("assistant", NoneText, e)>> : e \in BOOLEAN}
    \cup {<<DataSourceDelta(None, <<"a">>, e)>> : e \in BOOLEAN}
    \cup {<<DataSourceDelta(None, NoneText, TRUE)>>, <<NoDelta(TRUE)>>,
          <<DataSourceDelta("user", <<"u">>, FALSE)>>,
          <<DataSourceDelta(None, <<"a">>, TRUE), DataSourceDelta(None, <<"b">>, FALSE)>>}

\* The batch carries the end-of-turn marker.
HasEndTurn(batch) == \E i \in 1..Len(batch) : batch[i].end_turn

InitDataSource ==
    /\ stream_chunk = NewChunkData
    /\ deltas = <<>>
    /\ raised = None
    /\ pc = "start"
    /\ message = NoneText
    /\ has_stream \in BOOLEAN
    /\ data_sources = TRUE
    /\ config = None
    /\ max_steps \in 1..MaxDataSourceSteps
    /\ max_history = 20
    /\ store = <<>>
    /\ history = <<>>
    /\ response = NewChatResponse
    /\ step_count = 0
    /\ more_steps = TRUE
    /\ calls = <<>>
    /\ results = <<>>
    /\ summary_calls = <<>>
    /\ published = <<>>
    /\ invocations = <<>>
    /\ saves = 0
    /\ returned = NewChatResponse
    /\ RunIdle
    /\ AgentsIdle

\* Lines 51-102, one iteration with a response of the Data Sources API that
\* is not streamed.
DataSourceStep ==
    /\ data_sources
    /\ \E choice \in DataSourceChoices : StepWith(<<choice>>)

\* __handle_stream_result, one iteration with a chunk of the Data Sources
\* API; no chunk follows the one with the end-of-turn marker.  `results`
\* keeps the batch of each chunk.
DataSourceStreamChunkWith(batch, elapsed) ==
    /\ pc = "stream"
    /\ data_sources
    /\ Len(CurrentStream) < MaxDataSourceChunks
    /\ \A i \in 1..Len(CurrentStream) : ~HasEndTurn(CurrentStream[i])
    /\ results' = [results EXCEPT ![Len(results)] = Append(@, batch)]
    /\ Processed(ProcessChoices(ProcessState(history, response, invocations,
                                             stream_chunk, published),
                                config, <<DataSourceStreamChoice(batch, elapsed)>>),
                 "stream")
    /\ UNCHANGED <<deltas, message, config, max_steps, max_history, has_stream,
                   data_sources, store, step_count, calls, summary_calls, saves,
                   returned>>
    /\ UNCHANGED <<runVars, agentVars>>

DataSourceStreamChunk ==
    \E batch \in DataSourceStreamBatches, elapsed \in BOOLEAN :
        DataSourceStreamChunkWith(batch, elapsed)

\* The stream is exhausted: __handle_stream_result returns its more_steps.
DataSourceStreamEnd ==
    /\ pc = "stream"
    /\ data_sources
    /\ Len(CurrentStream) > 0
    /\ pc' = "loop"
    /\ UNCHANGED <<chunkVars, raised, message, config, max_steps, max_history,
                   has_stream, data_sources, store, history, response, step_count,
                   more_steps, calls, results, summary_calls, published,
                   invocations, saves, returned>>
    /\ UNCHANGED <<runVars, agentVars>>

NextDataSource ==
    \/ BeginTurn
    \/ DataSourceStep
    \/ StepCallRaises
    \/ StreamOpen
    \/ DataSourceStreamChunk
    \/ DataSourceStreamEnd
    \/ Finish

SpecDataSource == InitDataSource /\ [][NextDataSource]_vars


\* ------------------------------------------------------------------------
\* Claims about send_message with data sources (SpecDataSource)
\* ------------------------------------------------------------------------

RECURSIVE Flattened(_)
Flattened(batches) ==
    IF batches = <<>> THEN <<>> ELSE Head(batches) \o Flattened(Tail(batches))

\* The messages the last response of the Data Sources API carried: the
\* batch of the choice, or of a stream the batches of its chunks.
LastBatch ==
    IF has_stream THEN Flattened(CurrentStream)
    ELSE results[Len(results)][1].messages

\* The assistant content a message carries: the content of an assistant
\* message, of a stream the fragment of a delta without role.
AssistantContentOf(m) ==
    IF has_stream
    THEN (IF ~m.delta_none /\ m.role = None /\ m.content # NoneText
          THEN m.content ELSE <<>>)
    ELSE (IF m.role = "assistant" THEN m.content ELSE <<>>)

RECURSIVE AssistantContent(_)
AssistantContent(batch) ==
    IF batch = <<>> THEN <<>>
    ELSE AssistantContentOf(Head(batch)) \o AssistantContent(Tail(batch))

\* A response of the Data Sources API has been processed and the step loop
\* is at its condition.
DataSourceStepDone == data_sources /\ pc = "loop" /\ step_count > 0

\* C18: after a step with a response of the Data Sources API, streamed or
\* not, the loop runs no further step exactly when the batch carried the
\* end-of-turn marker, and the assistant content of the batch is the last
\* message of the history.
C18_TerminalExactlyOnEndTurn ==
    DataSourceStepDone =>
        /\ more_steps <=> ~HasEndTurn(LastBatch)
        /\ AssistantContent(LastBatch) # <<>> =>
              /\ Len(history) > 0
              /\ history[Len(history)].role # "user"
              /\ history[Len(history)].content = AssistantContent(LastBatch)

\* ------------------------------------------------------------------------
\* Claims about the guard of __handle_run_actions (SpecRun)
\* ------------------------------------------------------------------------

\* C21: when a thread on __handle_run_actions that has put the run into
\* active_tool_runs leaves the method, whatever path took it to the
\* finally (the submit call made, an exception of a future or of the submit
\* call, a required action of another type), the run is not in
\* active_tool_runs; a thread that returns at line 200 because the run was
\* active leaves active_tool_runs as it is.
C21_GuardClearedOnExit ==
    [][\A h \in 1..Len(handlers) :
          /\ (handlers[h].pc = "clear" /\ handlers'[h].pc = "done") =>
                handlers[h].run.id \notin active_tool_runs'
          /\ (handlers[h].pc = "check" /\ handlers'[h].pc = "returned") =>
                /\ handlers[h].run.id \in active_tool_runs
                /\ active_tool_runs' = active_tool_runs]_vars

\* A thread has left through the finally after a submit call that was
\* answered with an error, the run no longer active, and another thread
\* had returned at line 200.
C21_Witness ==
    /\ Len(handlers) = 2
    /\ \E h \in 1..2 : /\ handlers[h].pc = "done"
                        /\ handlers[h].error = "BadRequestError"
                        /\ handlers[3 - h].pc = "returned"
    /\ RunId \notin active_tool_runs

\* ------------------------------------------------------------------------
\* Termination of await_run_complete_or_fail (SpecRunLive)
\* ------------------------------------------------------------------------

\* The thread that called await_run_complete_or_fail keeps running: get_run
\* answers, the sleep ends and the clock advances.  Nothing is assumed of
\* the service or of the threads on __handle_run_actions, which are daemon
\* threads and may never be scheduled or never come back from a tool.
SpecRunLive ==
    /\ SpecRun
    /\ WF_vars(PollGetRun)
    /\ WF_vars(PollHandle)
    /\ WF_vars(PollSleep)
    /\ WF_vars(PollTimeout)

\* await_run_complete_or_fail has returned a run or raised.
AwaitOver == poll.pc \in {"returned", "raised"}

\* C22: every call of await_run_complete_or_fail comes to an end, by the
\* return of a run or by TimeoutError, whatever the run and the threads on
\* __handle_run_actions do, the run staying in requires_action and a thread
\* never finishing included.
C22_AwaitTerminates == <>AwaitOver

\* TimeoutError was raised while the run still required action and a thread
\* on __handle_run_actions had not come to its end.
C22_Witness ==
    /\ poll.pc = "raised"
    /\ raised = "TimeoutError"
    /\ run.status = "requires_action"
    /\ \E h \in 1..Len(handlers) : handlers[h].pc \in {"check", "set", "submit"}

\* ------------------------------------------------------------------------
\* Claims about AssistantsProxy.send_message (SpecAgents)
\* ------------------------------------------------------------------------

\* The list of runs shows one that is queued, in progress or being
\* cancelled.
ListsActiveRun(run_list) ==
    \E r \in 1..Len(run_list) : run_list[r] \in {"queued", "in_progress", "cancelling"}

\* The calls that are in send_message.
InSendMessage == {c \in 1..Len(prompt_calls) : prompt_calls[c].pc = "send"}

\* C23: send_message creates the user message only when the list of the
\* runs of the thread it got last shows none that is queued, in progress or
\* being cancelled; when the list shows one and timeout_secs have passed
\* since the check began, it raises TimeoutError and creates no message.
C23_MessageAfterClearList ==
    [][\A c \in InSendMessage :
          LET call  == prompt_calls[c]
              after == prompt_calls'[c]
          IN  /\ after.message_created => ~ListsActiveRun(call.run_list)
              /\ (after.timed_out /\ ~call.timed_out) =>
                    /\ ListsActiveRun(call.run_list)
                    /\ clock - call.run_check_start >= call.timeout_secs.value
                    /\ ~after.message_created
              /\ (ListsActiveRun(call.run_list)
                  /\ clock - call.run_check_start >= call.timeout_secs.value
                  /\ after # call) =>
                    after.timed_out /\ ~after.message_created]_vars

\* send_message has found a run of an earlier request under way, slept
\* until the list showed none, and created the message.
C23_Witness ==
    /\ proc.no = 2
    /\ \E c \in 1..Len(prompt_calls) :
          /\ prompt_calls[c].pc = "run"
          /\ prompt_calls[c].message_created
          /\ prompt_calls[c].run_check_start < clock
          /\ Len(prompt_calls[c].run_list) > 0
          /\ ~ListsActiveRun(prompt_calls[c].run_list)

\* ------------------------------------------------------------------------
\* Claims about __orchestrate_prompt_with_assistants (SpecAgents)
\* ------------------------------------------------------------------------

\* The calls of __process_prompt_in_thread made for the interpreter.
InterpreterCalls ==
    {c \in 1..Len(prompt_calls) : prompt_calls[c].caller = "interpreter"}

\* A request to several assistants is over: process_prompt has returned or
\* raised.
OrchestrationOver == proc.n >= 2 /\ proc.pc \in {"returned", "raised"}

\* C24: the interpreter is called only when every worker has come to its
\* end, and a request to several assistants that is over has called the
\* interpreter exactly once, whatever the workers gave.
C24_InterpreterOnceAfterWorkers ==
    /\ InterpreterCalls # {} =>
          \A w \in WorkerCalls : prompt_calls[w].pc \in {"returned", "raised"}
    /\ OrchestrationOver => Cardinality(InterpreterCalls) = 1

\* C25: each worker is called with a number for timeout_secs, the budget of
\* the request less the time passed since the orchestration began when the
\* worker was submitted (none passes between line 88 and line 97), and
\* the deadline of a worker that has begun is its start time plus that
\* number.
C25_WorkerTimeoutIsRemainingBudget ==
    \A w \in WorkerCalls :
        /\ prompt_calls[w].timeout_secs.type = "number"
        /\ prompt_calls[w].timeout_secs.value = PromptTimeout
        /\ prompt_calls[w].pc # "start" =>
              prompt_calls[w].expiry
                  = prompt_calls[w].start_time + prompt_calls[w].timeout_secs.value

\* C26: a request to several assistants that is over has called the
\* interpreter with the larger of 20 seconds and what is left of the
\* budget, never less than 20 seconds.
C26_InterpreterFloor ==
    OrchestrationOver =>
        \E c \in InterpreterCalls :
            /\ prompt_calls[c].timeout_secs.type = "number"
            /\ prompt_calls[c].timeout_secs.value >= InterpreterFloor
            /\ \E elapsed \in 0..clock :
                  prompt_calls[c].timeout_secs.value
                      = Max(InterpreterFloor, PromptTimeout - elapsed)


\* ------------------------------------------------------------------------
\* Claims about the threads of the workers (SpecAgents)
\* ------------------------------------------------------------------------

\* The step of lines 88-98: the workers of a request are submitted.
WorkersSubmitted ==
    /\ proc'.no = proc.no + 1
    /\ proc'.n >= 2

\* C27: each worker is given the thread linked to its assistant in the
\* context; a link that was there when the request came is the one used,
\* and no link is ever changed; otherwise the thread is a new one, linked
\* in the context when the worker is submitted.  Two workers for different
\* assistants never have the same thread, no worker has the thread of the
\* context, and submitting the workers leaves context.thread_id as it was.
C27_WorkerRunsOnLinkedThread ==
    /\ [](\A c \in WorkerCalls :
            /\ prompt_calls[c].thread_id # NoThread
            /\ prompt_calls[c].thread_id
                  = GetLinkedThread(context, prompt_calls[c].assistant)
            /\ prompt_calls[c].thread_id # context.thread_id
            /\ \A d \in WorkerCalls :
                  prompt_calls[d].assistant # prompt_calls[c].assistant
                      => prompt_calls[d].thread_id # prompt_calls[c].thread_id)
    /\ [][/\ context.linked_threads \subseteq context'.linked_threads
          /\ WorkersSubmitted =>
                /\ context'.thread_id = context.thread_id
                /\ \A c \in 1..Len(prompt_calls') :
                      /\ prompt_calls'[c].caller = "worker"
                      /\ IF GetLinkedThread(context, prompt_calls'[c].assistant)
                               # NoThread
                         THEN prompt_calls'[c].thread_id
                                 = GetLinkedThread(context,
                                                   prompt_calls'[c].assistant)
                         ELSE prompt_calls'[c].thread_id
                                 \notin ThreadsMade(context)]_vars

\* The second request names three assistants after a first one that named
\* several: the first worker has the thread linked to its assistant by the
\* first request, the second has another, and the context has no thread.
C27_Witness ==
    /\ proc.no = 2
    /\ proc.n = 3
    /\ context.thread_id = NoThread
    /\ Len(prompt_calls) = 2
    /\ prompt_calls[1].caller = "worker"
    /\ prompt_calls[2].caller = "worker"
    /\ prompt_calls[1].thread_id = Thread(1)
    /\ prompt_calls[2].thread_id = Thread(2)
    /\ prompt_calls[1].thread_id = GetLinkedThread(context, AssistantId(1))
    /\ prompt_calls[2].thread_id = GetLinkedThread(context, AssistantId(2))


\* ------------------------------------------------------------------------
\* Claims about the saving of the history (SpecTurn)
\* ------------------------------------------------------------------------

\* The sequence s begins with the sequence r.
BeginsWith(s, r) == Len(r) <= Len(s) /\ \A i \in 1..Len(r) : s[i] = r[i]

\* The message of the prompt is in the history h.
HoldsPrompt(h) ==
    \E i \in 1..Len(h) : h[i].role = "user" /\ h[i].content = message

C29_ToolChoiceByStep ==
    \A k \in 1..Len(calls) :
        /\ calls[k].step = k
        /\ calls[k].tool_choice \in {"auto", "none"}
        /\ calls[k].tool_choice = "auto" <=> k < max_steps - 1
        /\ calls[k].tool_choice = "none" <=> k >= max_steps - 1
        /\ max_steps <= 2 => calls[k].tool_choice = "none"

\* A turn with max_steps 3 that made its three calls: the first with
\* "auto", the second and the third with "none".
C29_Witness ==
    /\ max_steps = 3
    /\ Len(calls) = 3
    /\ calls[1].tool_choice = "auto"
    /\ calls[2].tool_choice = "none"
    /\ calls[3].tool_choice = "none"


\* ------------------------------------------------------------------------
\* Claims about a stream that ends with length or content_filter (SpecTurn)
\* ------------------------------------------------------------------------

\* The stream has had a chunk with the finish_reason length or
\* content_filter.
CutOrFiltered(stream) ==
    \E i \in 1..Len(stream) : stream[i] \in {"length", "content_filter"}

\* C30: with a stream, the chunk with the finish_reason length or
\* content_filter, and what follows it until the stream has ended, leave
\* the history and the response as they were, and more_steps is True when
\* the stream has ended; the call of the next step, when there is one, is
\* made with the history the call before it was made with.
C30_CutStreamChangesNothing ==
    /\ [](/\ (/\ has_stream
              /\ results # <<>>
              /\ CutOrFiltered(CurrentStream)) => more_steps
          /\ \A k \in 2..Len(calls) :
                (has_stream /\ CutOrFiltered(results[k - 1]))
                    => calls[k].messages = calls[k - 1].messages)
    /\ [][(/\ has_stream
           /\ results' # <<>>
           /\ Len(results') = Len(results)
           /\ CutOrFiltered(results'[Len(results')]))
              => /\ history' = history
                 /\ response' = response
                 /\ more_steps']_vars
    /\ [][pc = "loop" /\ pc' = "stream" => history' = history]_vars

\* The first stream ended with length after a delta with content, and the
\* second call has been made, with as many messages as the first.
C30_Witness ==
    /\ has_stream
    /\ Len(calls) = 2
    /\ results[1] # <<>>
    /\ results[1][1] = "length"
    /\ calls[2].messages = calls[1].messages
    /\ response.message = NoneText


\* ------------------------------------------------------------------------
\* Claims about _publish_interim_result (SpecTurn)
\* ------------------------------------------------------------------------

\* The accumulated delta of cd holds something to publish.
Pending(cd) == IsText(cd.accumulated_delta) /\ Len(cd.accumulated_delta) > 0

\* What _publish_interim_result would do now.
PublishedNow(force_publish, elapsed) ==
    PublishInterimResult(ProcessState(history, response, invocations,
                                      stream_chunk, published),
                         force_publish, Elapsed(stream_chunk, elapsed))

MaxBatchLen == 2

\* The messages of a batch: without delta, or with a delta of no role, of
\* the roles tool and assistant and of another role, with and without
\* content, with and without end_turn.
DeltaMessages ==
    {DataSourceDelta(role, content, end_turn) :
        role \in {None, "tool", "assistant", "user"},
        content \in {NoneText, <<"a">>},
        end_turn \in BOOLEAN}
    \cup {NoDelta(end_turn) : end_turn \in BOOLEAN}

DeltaBatches ==
    UNION {[1..n -> DeltaMessages] : n \in 0..MaxBatchLen}

\* The message has a delta of the role with a content.
HasContentOf(msg, role) ==
    ~msg.delta_none /\ msg.role = role /\ msg.content # NoneText

\* acc after the contents of the deltas of the role in the batch, in their
\* order.
RECURSIVE WithContentsOf(_, _, _)
WithContentsOf(acc, batch, role) ==
    IF batch = <<>> THEN acc
    ELSE WithContentsOf(IF HasContentOf(Head(batch), role)
                        THEN AppendText(acc, Head(batch).content) ELSE acc,
                        Tail(batch), role)

\* The batch has a delta of a role that is none of None, tool, assistant.
HasOtherRole(batch) ==
    \E i \in 1..Len(batch) :
        ~batch[i].delta_none /\ batch[i].role \notin {None, "tool", "assistant"}

\* C32: add_data_source_delta, on the accumulator of a stream of the Data
\* Sources API and any batch: a delta of another role than None, tool and
\* assistant raises; else the contents of the deltas without role are
\* appended to content and to accumulated_delta, those of the role tool to
\* tool_content and to nothing else, a delta of the role assistant changes
\* nothing, and content_accumulated is true exactly when the content of a
\* delta without role was appended.
C32_DeltaHandledByRole ==
    (pc = "stream" /\ data_sources) =>
        \A batch \in DeltaBatches :
            LET r == AddDataSourceDelta(stream_chunk, batch)
            IN  IF HasOtherRole(batch) THEN r.raised # None
                ELSE /\ r.raised = None
                     /\ r.chunk.content
                           = WithContentsOf(stream_chunk.content, batch, None)
                     /\ r.chunk.accumulated_delta
                           = WithContentsOf(stream_chunk.accumulated_delta, batch, None)
                     /\ r.chunk.tool_content
                           = WithContentsOf(stream_chunk.tool_content, batch, "tool")
                     /\ r.chunk.role = stream_chunk.role
                     /\ r.chunk.tool_calls = stream_chunk.tool_calls
                     /\ r.chunk.last_stream_publish = stream_chunk.last_stream_publish
                     /\ r.content_accumulated
                           <=> \E i \in 1..Len(batch) : HasContentOf(batch[i], None)

\* A stream gave the content of the tool, then two fragments of the answer
\* in one batch: each went where its role says.
C32_Witness ==
    /\ pc = "stream"
    /\ data_sources
    /\ stream_chunk.tool_content = <<"{", "c", "}">>
    /\ stream_chunk.content = <<"a", "b">>
    /\ Len(published) > 0


\* C38, as stated: add_data_source_delta gives end_turn true for every
\* batch in which a message carries end_turn true, wherever the message is
\* in the batch and whether or not it has a delta or a content (a batch
\* that raises gives nothing).
C38_EndTurnOfAnyMessage ==
    (pc = "stream" /\ data_sources) =>
        \A batch \in DeltaBatches :
            (~HasOtherRole(batch) /\ HasEndTurn(batch))
                => AddDataSourceDelta(stream_chunk, batch).end_turn


\* ------------------------------------------------------------------------
\* Claims about the type of a tool-call fragment (SpecChunk)
\* ------------------------------------------------------------------------

\* The type the accumulator of the index idx has after the fragments fs were
\* merged: the type of the last of them with that index that names a type,
\* None when there is none.
RECURSIVE StoredType(_, _)
StoredType(fs, idx) ==
    IF fs = <<>> THEN None
    ELSE LET last == fs[Len(fs)]
         IN  IF last.index = idx /\ last.type # None THEN last.type
             ELSE StoredType(SubSeq(fs, 1, Len(fs) - 1), idx)

\* Of the fragments fs the k-th finds no "function": neither as the type
\* stored for its index by the fragments before it nor as its own type.
NoFunctionType(fs, k) ==
    /\ StoredType(SubSeq(fs, 1, k - 1), fs[k].index) # "function"
    /\ fs[k].type # "function"

\* C33: add_chunk_delta raises for a tool-call fragment exactly when
\* neither the type stored in the accumulator of its index nor its own type
\* is "function", a first fragment without type included; every other
\* fragment is merged into the accumulator of its index: id, type and name
\* are those of the last fragment that named them, the arguments are
\* concatenated.
C33_RaisesWithoutFunctionType ==
    LET fs == Fragments(deltas)
        tcs == stream_chunk.tool_calls
    IN  /\ raised # None <=> \E k \in 1..Len(fs) : NoFunctionType(fs, k)
        /\ raised # None => /\ raised = "ValueError"
                            /\ NoFunctionType(fs, Len(fs))
                            /\ \A k \in 1..(Len(fs) - 1) : ~NoFunctionType(fs, k)
        /\ raised = None =>
              \A idx \in FragmentIndexes(fs) :
                  \E k \in 1..Len(tcs) :
                      /\ tcs[k].index = idx
                      /\ tcs[k].type = StoredType(fs, idx)
                      /\ tcs[k].function.arguments = ConcatArguments(fs, idx)

\* The first fragment of a call had the type function, the second gave the
\* call another type and was merged, the third, of no type, was refused.
C33_Witness ==
    /\ raised = "ValueError"
    /\ Len(Fragments(deltas)) = 3
    /\ Fragments(deltas)[1].type = "function"
    /\ Fragments(deltas)[2].type = "other"
    /\ Fragments(deltas)[3].type = None
    /\ Fragments(deltas)[1].index = Fragments(deltas)[2].index
    /\ Fragments(deltas)[2].index = Fragments(deltas)[3].index


\* ------------------------------------------------------------------------
\* Claims about the last message of a turn (SpecTurn)
\* ------------------------------------------------------------------------

\* What the response of step k was: of a response that is not streamed the
\* kinds of its choices, of a stream the finish_reasons of its chunks.
ResponseKinds(k) ==
    IF has_stream
    THEN {results[k][i] : i \in 1..Len(results[k])} \cap FinishReasons
    ELSE {results[k][i].kind : i \in 1..Len(results[k])}

\* Every response was tool calls or a message of the assistant, and no
\* response to a call with tool_choice "none" was tool calls.
ServiceHonoursToolChoice ==
    /\ Len(results) = Len(calls)
    /\ \A k \in 1..Len(results) :
          /\ ResponseKinds(k) \in (IF has_stream THEN {{"tool_calls"}, {"stop"}}
                                   ELSE {{"tool_calls"}, {"message"}})
          /\ calls[k].tool_choice = "none" => ResponseKinds(k) # {"tool_calls"}

\* C34: when the service honours tool_choice and answers each call with tool
\* calls or with a message of the assistant, a turn with tools and
\* max_steps >= 1 that returns has a message of the assistant as the last
\* of its history, not the message of tool calls nor the result of a tool.
C34_TurnEndsWithAssistantMessage ==
    (pc = "done" /\ max_steps >= 1 /\ ~data_sources /\ ServiceHonoursToolChoice)
        => /\ Len(history) > 0
           /\ history[Len(history)].kind = "content"
           /\ history[Len(history)].role = "assistant"

\* A turn with max_steps 3: the first call, with "auto", was answered with
\* tool calls, the second, with "none", with the message that ends it.
C34_Witness ==
    /\ pc = "done"
    /\ max_steps = 3
    /\ ~has_stream
    /\ ServiceHonoursToolChoice
    /\ Len(calls) = 2
    /\ ResponseKinds(1) = {"tool_calls"}
    /\ ResponseKinds(2) = {"message"}
    /\ history[Len(history) - 1].kind = "tool"
    /\ history[Len(history)].kind = "content"


\* ------------------------------------------------------------------------
\* Claims about the end of a stream (SpecTurn)
\* ------------------------------------------------------------------------

\* The stream of the current step has had its chunk with the finish_reason
\* stop, and handling it raised nothing.
StopProcessed ==
    /\ has_stream
    /\ ~data_sources
    /\ pc \in {"stream", "loop", "done"}
    /\ results # <<>>
    /\ \E i \in 1..Len(CurrentStream) : CurrentStream[i] = "stop"

\* C35, as stated: from the chunk with the finish_reason stop on, the
\* more_steps of the step is False, whatever chunks follow in the stream.
C35_StopEndsTheStep == StopProcessed => ~more_steps


\* ------------------------------------------------------------------------
\* Claims about a turn that an exception leaves (SpecTurn)
\* ------------------------------------------------------------------------

\* C36: a turn that an exception leaves, raised by the summary call of the
\* compaction, by a completion call or while a response or a stream is
\* handled, has not written the store: the store changes only in the step
\* that ends a turn without exception, so what is stored is what was
\* stored before the turn, and nothing follows the exception.
C36_NoSaveAfterException ==
    /\ [](raised # None => /\ pc = "raised"
                           /\ saves = 0)
    /\ [][/\ pc' # "done" => store' = store /\ saves' = saves
          /\ pc' = "done" => raised = None /\ raised' = None
          /\ pc # "raised"]_vars

\* A turn on a stored history: after a step with a tool call an exception
\* left the turn; the history of the proxy has grown, the store has not.
C36_Witness ==
    /\ pc = "raised"
    /\ raised # None
    /\ saves = 0
    /\ Len(calls) >= 2
    /\ Len(store) > 0
    /\ Len(history) > Len(store) + 1


\* ------------------------------------------------------------------------
\* Claims about what a stream publishes (SpecTurn)
\* ------------------------------------------------------------------------

\* A text, the empty text for None.
TextOf(t) == IF t = NoneText THEN <<>> ELSE t

\* C37: in a streamed step that ends with the finish_reason stop, the
\* interim deltas pushed during the step, put together in the order they
\* were pushed, are the content the step accumulated, whichever of the
\* deltas were pushed at once and whichever were held back; and while the
\* stream goes on, what was pushed followed by what is held back is the
\* content accumulated so far.
C37_PublishedIsContent ==
    /\ StopProcessed => Flattened(published) = TextOf(stream_chunk.content)
    /\ (pc = "stream" /\ ~data_sources /\ ~StopProcessed)
          => Flattened(published) \o TextOf(stream_chunk.accumulated_delta)
                = TextOf(stream_chunk.content)

\* A stream of two fragments has ended with stop: the first was pushed when
\* it came, the second was held back and pushed with the stop.
C37_Witness ==
    /\ StopProcessed
    /\ published = <<<<"a">>, <<"b">>>>
    /\ stream_chunk.accumulated_delta = <<"b">>
    /\ stream_chunk.content = <<"a", "b">>
    /\ history[Len(history)] = ContentMessage(<<"a", "b">>, "assistant")

====
